---- MODULE Spec2Model ----
(***************************************************************************)
(* Virtual-branches metadata: the relational store (but-db,                *)
(* table/virtual_branches.rs) and its synchronisation with the TOML mirror *)
(* (but-meta, legacy/storage.rs).                                          *)
(***************************************************************************)
EXTENDS Integers, Sequences, FiniteSets, TLC

VARIABLES db, file, last, procs, editor, repo

vars == <<db, file, last, procs, editor, repo>>

(***************************************************************************)
(* Bounds.                                                                 *)
(***************************************************************************)
\* mtimes observed on the file range over 0..MaxTime
MaxTime == 1
\* stack orders 0..MaxOrder fit the store's i64 column; MaxOrder + 1 stands
\* for a usize above i64::MAX
MaxOrder == 1

Times == 0..MaxTime

(***************************************************************************)
(* Option<T>: None is the empty tuple, Some(x) the one-element tuple.      *)
(***************************************************************************)
None == <<>>

Some(x) == <<x>>

IsSome(o) == Len(o) = 1

Unwrap(o) == o[1]

(***************************************************************************)
(* Legacy types (VirtualBranches, Stack, StackBranch, Target) as used by   *)
(* the conversions of storage.rs.  A stack is identified by its key in     *)
(* `branches`; the conversions drop Stack::id in favour of the key.        *)
(***************************************************************************)
Target(branch, url, sha, push) ==
    [branch |-> branch, remote_url |-> url, sha |-> sha, push_remote_name |-> push]

StackBranch(name, head) ==
    [head |-> head, name |-> name, pr_number |-> None, archived |-> FALSE,
     review_id |-> None]

\* `legacy` stands for the nine deprecated scalars (name, notes, ownership,
\* allow_rebasing, post_commits, tree, head, created/updated timestamps), which both
\* conversions copy column by column.
Stack(upstream, order, in_workspace, heads, legacy) ==
    [source_refname |-> None, upstream |-> upstream, order |-> order,
     in_workspace |-> in_workspace, heads |-> heads, legacy |-> legacy]

RemoteRefname(remote, branch) == [remote |-> remote, branch |-> branch]

VirtualBranches(default_target, branch_targets, branches, last_pushed_base) ==
    [default_target |-> default_target, branch_targets |-> branch_targets,
     branches |-> branches, last_pushed_base |-> last_pushed_base]

\* VirtualBranches::default()
EmptyVB == VirtualBranches(None, <<>>, <<>>, None)

(***************************************************************************)
(* Rows of the store.                                                      *)
(***************************************************************************)
\* VbState::default()
DefaultVbState ==
    [initialized |-> FALSE,
     default_target_remote_name |-> None, default_target_branch_name |-> None,
     default_target_remote_url |-> None, default_target_sha |-> None,
     default_target_push_remote_name |-> None, last_pushed_base_sha |-> None,
     toml_last_seen_mtime_ns |-> None, toml_last_seen_sha256 |-> None]

\* VirtualBranchesSnapshot::default()
DefaultSnapshot ==
    [state |-> DefaultVbState, stacks |-> <<>>, heads |-> <<>>, branch_targets |-> <<>>]

\* The four tables with no row at all.
EmptyDb == [state |-> None, stacks |-> {}, heads |-> {}, targets |-> {}]

(***************************************************************************)
(* Ordering helpers: a set of <<key, row>> pairs with pairwise distinct    *)
(* two-component keys, listed by ascending key.                            *)
(***************************************************************************)
KeyLess(k, l) == k[1] < l[1] \/ (k[1] = l[1] /\ k[2] < l[2])

RECURSIVE SortKeyed(_)
SortKeyed(P) ==
    IF P = {} THEN <<>>
    ELSE LET m == CHOOSE p \in P : \A q \in P : q = p \/ KeyLess(p[1], q[1]) \/ p[1] = q[1]
         IN  <<m[2]>> \o SortKeyed(P \ {m})

RECURSIVE Concat(_)
Concat(ss) == IF ss = <<>> THEN <<>> ELSE Head(ss) \o Concat(Tail(ss))

Range(s) == {s[i] : i \in DOMAIN s}

(***************************************************************************)
(* legacy_to_snapshot: VirtualBranches -> VirtualBranchesSnapshot.         *)
(***************************************************************************)
\* i64::try_from(order) succeeds
FitsI64(n) == n <= MaxOrder

\* the keys of `branches` by ascending id, whatever the order of the stacks
SortedStackIds_by_id(vb) ==
    SortKeyed({<< <<sid, 0>>, sid >> : sid \in DOMAIN vb.branches})

\* stacks.sort_by_key(|(sid, stack)| (stack.order, sid.to_string())): the keys of
\* `branches` by ascending (order, id)
SortedStackIds(vb) ==
    SortKeyed({<< <<vb.branches[sid].order, sid>>, sid >> : sid \in DOMAIN vb.branches})

\* out_stacks.push(VbStack { .. })
ToVbStack(stack_id, stack) ==
    [id |-> stack_id,
     source_refname |-> stack.source_refname,
     upstream_remote_name |->
         IF IsSome(stack.upstream) THEN Some(Unwrap(stack.upstream).remote) ELSE None,
     upstream_branch_name |->
         IF IsSome(stack.upstream) THEN Some(Unwrap(stack.upstream).branch) ELSE None,
     sort_order |-> stack.order,
     in_workspace |-> stack.in_workspace,
     legacy |-> stack.legacy]

\* ToVbStackHeads numbering the heads from one
ToVbStackHeads_from_one(stack_id, stack) ==
    [i \in 1..Len(stack.heads) |->
        [stack_id |-> stack_id,
         position |-> i,
         name |-> stack.heads[i].name,
         head_sha |-> stack.heads[i].head,
         pr_number |-> stack.heads[i].pr_number,
         archived |-> stack.heads[i].archived,
         review_id |-> stack.heads[i].review_id]]

\* for (position, head) in heads.iter().enumerate() { out_heads.push(VbStackHead { .. }) }
ToVbStackHeads(stack_id, stack) ==
    [i \in 1..Len(stack.heads) |->
        [stack_id |-> stack_id,
         position |-> i - 1,
         name |-> stack.heads[i].name,
         head_sha |-> stack.heads[i].head,
         pr_number |-> stack.heads[i].pr_number,
         archived |-> stack.heads[i].archived,
         review_id |-> stack.heads[i].review_id]]

\* ToVbBranchTargets forgetting the branch targets
ToVbBranchTargets_none(vb) == <<>>

\* out_targets sorted by stack id, mapped to VbBranchTarget
ToVbBranchTargets(vb) ==
    LET ids == SortKeyed({<< <<sid, 0>>, sid >> : sid \in DOMAIN vb.branch_targets})
    IN  [i \in 1..Len(ids) |->
            LET target == vb.branch_targets[ids[i]]
            IN  [stack_id |-> ids[i],
                 remote_name |-> target.branch.remote,
                 branch_name |-> target.branch.branch,
                 remote_url |-> target.remote_url,
                 sha |-> target.sha,
                 push_remote_name |-> target.push_remote_name]]

\* a state row that never records the remote URL of the default target
ToVbState_without_url(vb, info) ==
    LET dt == vb.default_target
    IN  [initialized |-> TRUE,
         default_target_remote_name |->
             IF IsSome(dt) THEN Some(Unwrap(dt).branch.remote) ELSE None,
         default_target_branch_name |->
             IF IsSome(dt) THEN Some(Unwrap(dt).branch.branch) ELSE None,
         default_target_remote_url |-> None,
         default_target_sha |-> IF IsSome(dt) THEN Some(Unwrap(dt).sha) ELSE None,
         default_target_push_remote_name |->
             IF IsSome(dt) THEN Unwrap(dt).push_remote_name ELSE None,
         last_pushed_base_sha |-> vb.last_pushed_base,
         toml_last_seen_mtime_ns |-> info.toml_last_seen_mtime_ns,
         toml_last_seen_sha256 |-> info.toml_last_seen_sha256]

\* The state row built by legacy_to_snapshot: the default target's columns are all
\* present or all absent (push_remote_name follows the target's own option).
ToVbState(vb, info) ==
    LET dt == vb.default_target
    IN  [initialized |-> TRUE,
         default_target_remote_name |->
             IF IsSome(dt) THEN Some(Unwrap(dt).branch.remote) ELSE None,
         default_target_branch_name |->
             IF IsSome(dt) THEN Some(Unwrap(dt).branch.branch) ELSE None,
         default_target_remote_url |->
             IF IsSome(dt) THEN Some(Unwrap(dt).remote_url) ELSE None,
         default_target_sha |-> IF IsSome(dt) THEN Some(Unwrap(dt).sha) ELSE None,
         default_target_push_remote_name |->
             IF IsSome(dt) THEN Unwrap(dt).push_remote_name ELSE None,
         last_pushed_base_sha |-> vb.last_pushed_base,
         toml_last_seen_mtime_ns |-> info.toml_last_seen_mtime_ns,
         toml_last_seen_sha256 |-> info.toml_last_seen_sha256]

\* Result<VirtualBranchesSnapshot>: ok = FALSE is the "Stack order exceeds i64" error.
legacy_to_snapshot(vb, info) ==
    LET ids == SortedStackIds(vb)
    IN  [ok |-> \A sid \in DOMAIN vb.branches : FitsI64(vb.branches[sid].order),
         snap |->
            [state |-> ToVbState(vb, info),
             stacks |-> [i \in 1..Len(ids) |-> ToVbStack(ids[i], vb.branches[ids[i]])],
             heads |-> Concat([i \in 1..Len(ids) |->
                                  ToVbStackHeads(ids[i], vb.branches[ids[i]])]),
             branch_targets |-> ToVbBranchTargets(vb)]]

\* into_db_toml_file_info
into_db_toml_file_info(db_state) ==
    [toml_last_seen_mtime_ns |-> db_state.toml_last_seen_mtime_ns,
     toml_last_seen_sha256 |-> db_state.toml_last_seen_sha256]

(***************************************************************************)
(* snapshot_to_legacy: VirtualBranchesSnapshot -> VirtualBranches.         *)
(***************************************************************************)
\* stack.heads after the loop over snapshot.heads: the heads naming the stack, in
\* the snapshot's order, `position` dropped
HeadsOfStack(snap, stack_id) ==
    LET mine == SelectSeq(snap.heads, LAMBDA h : h.stack_id = stack_id)
    IN  [i \in 1..Len(mine) |->
            [head |-> mine[i].head_sha, name |-> mine[i].name,
             pr_number |-> mine[i].pr_number, archived |-> mine[i].archived,
             review_id |-> mine[i].review_id]]

\* branches.insert(stack_id, Stack { .. }): a later row of the same id replaces an
\* earlier one
FromVbStack(snap, stack_id) ==
    LET i == CHOOSE i \in DOMAIN snap.stacks :
                 /\ snap.stacks[i].id = stack_id
                 /\ \A j \in DOMAIN snap.stacks : snap.stacks[j].id = stack_id => j <= i
        row == snap.stacks[i]
    IN  [source_refname |-> row.source_refname,
         upstream |->
             IF IsSome(row.upstream_remote_name) /\ IsSome(row.upstream_branch_name)
             THEN Some(RemoteRefname(Unwrap(row.upstream_remote_name),
                                     Unwrap(row.upstream_branch_name)))
             ELSE None,
         order |-> row.sort_order,
         in_workspace |-> row.in_workspace,
         heads |-> HeadsOfStack(snap, stack_id),
         legacy |-> row.legacy]

FromVbBranchTarget(snap, stack_id) ==
    LET i == CHOOSE i \in DOMAIN snap.branch_targets :
                 /\ snap.branch_targets[i].stack_id = stack_id
                 /\ \A j \in DOMAIN snap.branch_targets :
                        snap.branch_targets[j].stack_id = stack_id => j <= i
        row == snap.branch_targets[i]
    IN  Target(RemoteRefname(row.remote_name, row.branch_name), row.remote_url,
               row.sha, row.push_remote_name)

\* Result<VirtualBranches>: ok = FALSE is the "Missing stack for head" error.
snapshot_to_legacy(snap) ==
    LET st == snap.state
        stack_ids == {snap.stacks[i].id : i \in DOMAIN snap.stacks}
        target_ids == {snap.branch_targets[i].stack_id : i \in DOMAIN snap.branch_targets}
    IN  [ok |-> \A i \in DOMAIN snap.heads : snap.heads[i].stack_id \in stack_ids,
         vb |->
            [default_target |->
                 IF /\ IsSome(st.default_target_remote_name)
                    /\ IsSome(st.default_target_branch_name)
                    /\ IsSome(st.default_target_remote_url)
                    /\ IsSome(st.default_target_sha)
                 THEN Some(Target(RemoteRefname(Unwrap(st.default_target_remote_name),
                                                Unwrap(st.default_target_branch_name)),
                                  Unwrap(st.default_target_remote_url),
                                  Unwrap(st.default_target_sha),
                                  st.default_target_push_remote_name))
                 ELSE None,
             branch_targets |-> [sid \in target_ids |-> FromVbBranchTarget(snap, sid)],
             branches |-> [sid \in stack_ids |-> FromVbStack(snap, sid)],
             last_pushed_base |-> st.last_pushed_base_sha]]

(***************************************************************************)
(* The store: tables vb_state (at most one row), vb_stacks (key id),       *)
(* vb_stack_heads (key (stack_id, position), stack_id references a stack   *)
(* with ON DELETE CASCADE) and vb_branch_targets (key stack_id, same       *)
(* reference).  `t` is the content of the four tables as one connection    *)
(* sees it.                                                                *)
(***************************************************************************)
\* get_snapshot: None without a state row, else the rows in the contractual order:
\* stacks by (sort_order, id), heads by (stack_id, position), targets by stack_id
get_snapshot(t) ==
    IF ~IsSome(t.state) THEN None
    ELSE Some([state |-> Unwrap(t.state),
               stacks |-> SortKeyed({<< <<r.sort_order, r.id>>, r >> : r \in t.stacks}),
               heads |-> SortKeyed({<< <<r.stack_id, r.position>>, r >> : r \in t.heads}),
               branch_targets |-> SortKeyed({<< <<r.stack_id, 0>>, r >> : r \in t.targets})])

\* set_state_in_place: INSERT .. ON CONFLICT(id) DO UPDATE, every column from `state`
set_state_in_place(t, state) == [t EXCEPT !.state = Some(state)]

\* DELETE FROM vb_stacks without ON DELETE CASCADE on the dependent tables
DeleteAllStacks_no_cascade(t) == [t EXCEPT !.stacks = {}]

\* DELETE FROM vb_stacks; heads and targets of the deleted stacks go with them
DeleteAllStacks(t) ==
    [t EXCEPT !.stacks = {},
              !.heads = {h \in t.heads : h.stack_id \notin {r.id : r \in t.stacks}},
              !.targets = {b \in t.targets : b.stack_id \notin {r.id : r \in t.stacks}}]

\* One INSERT INTO vb_stacks: fails on a primary key that is already there.
InsertStackOk(t, row) == row.id \notin {r.id : r \in t.stacks}

\* One INSERT INTO vb_stack_heads: fails on a duplicate (stack_id, position) and on a
\* stack_id that names no stack.
InsertHeadOk(t, row) ==
    /\ <<row.stack_id, row.position>> \notin {<<h.stack_id, h.position>> : h \in t.heads}
    /\ row.stack_id \in {r.id : r \in t.stacks}

\* One INSERT INTO vb_branch_targets: fails on a duplicate stack_id and on a stack_id
\* that names no stack.
InsertTargetOk(t, row) ==
    /\ row.stack_id \notin {b.stack_id : b \in t.targets}
    /\ row.stack_id \in {r.id : r \in t.stacks}

\* The statements of replace_snapshot in order, stopping at the first that fails:
\* [ok, t] where t is the content reached inside the savepoint.
RECURSIVE InsertStacks(_, _)
InsertStacks(t, rows) ==
    IF rows = <<>> THEN [ok |-> TRUE, t |-> t]
    ELSE IF ~InsertStackOk(t, Head(rows)) THEN [ok |-> FALSE, t |-> t]
    ELSE InsertStacks([t EXCEPT !.stacks = @ \cup {Head(rows)}], Tail(rows))

RECURSIVE InsertHeads(_, _)
InsertHeads(t, rows) ==
    IF rows = <<>> THEN [ok |-> TRUE, t |-> t]
    ELSE IF ~InsertHeadOk(t, Head(rows)) THEN [ok |-> FALSE, t |-> t]
    ELSE InsertHeads([t EXCEPT !.heads = @ \cup {Head(rows)}], Tail(rows))

RECURSIVE InsertTargets(_, _)
InsertTargets(t, rows) ==
    IF rows = <<>> THEN [ok |-> TRUE, t |-> t]
    ELSE IF ~InsertTargetOk(t, Head(rows)) THEN [ok |-> FALSE, t |-> t]
    ELSE InsertTargets([t EXCEPT !.targets = @ \cup {Head(rows)}], Tail(rows))

ReplaceStatements(t, snapshot) ==
    LET s1 == DeleteAllStacks(set_state_in_place(t, snapshot.state))
        s2 == InsertStacks(s1, snapshot.stacks)
        s3 == InsertHeads(s2.t, snapshot.heads)
        s4 == InsertTargets(s3.t, snapshot.branch_targets)
    IN  IF ~s2.ok THEN s2 ELSE IF ~s3.ok THEN s3 ELSE s4

\* SavepointEnd keeping what the statements did before the failing one
SavepointEnd_keeps_partial(before, run) == run.t

\* The savepoint the handle was created with: released by sp.commit() when every
\* statement succeeded, rolled back when the handle is dropped on an error.
SavepointEnd(before, run) == IF run.ok THEN run.t ELSE before

\* replace_snapshot under its savepoint: [ok, t]
replace_snapshot(t, snapshot) ==
    LET run == ReplaceStatements(t, snapshot)
    IN  [ok |-> run.ok, t |-> SavepointEnd(t, run)]

\* set_state: set_state_in_place, then sp.commit()
set_state(t, state) == set_state_in_place(t, state)

(***************************************************************************)
(* The TOML file: whether it exists, its bytes and its mtime.  The bytes   *)
(* are either no VirtualBranches document (`valid` = FALSE: not UTF-8, not *)
(* TOML, or not of the expected shape) or the document of `data`.          *)
(***************************************************************************)
Garbage == [valid |-> FALSE, data |-> EmptyVB]

MissingFile == [exists |-> FALSE, bytes |-> Garbage, mtime |-> 0]

\* toml::to_string(data)
to_string(data) == [valid |-> TRUE, data |-> data]

\* toml::from_str::<VirtualBranches>(content): Some(data) or None for Err
from_str(bytes) == IF bytes.valid THEN Some(bytes.data) ELSE None

\* sha256_hex_hash: a digest that differs whenever the bytes differ
sha256_hex_hash(bytes) == [sha256_of |-> bytes]

\* write_toml: the file as written and the TomlFileState read back from it; mtime is
\* the modification time the file system gives the written file
write_toml(data, mtime) ==
    LET written == [exists |-> TRUE, bytes |-> to_string(data), mtime |-> mtime]
    IN  [file |-> written,
         info |-> [mtime_ns |-> written.mtime,
                   sha256_hexdigest |-> sha256_hex_hash(written.bytes)]]

\* read_toml_info: TomlInfo::Missing | Invalid | Parsed(ParsedToml)
read_toml_info(f) ==
    IF ~f.exists
    THEN [kind |-> "Missing", data |-> EmptyVB, mtime_ns |-> 0,
          sha256_hexdigest |-> sha256_hex_hash(Garbage)]
    ELSE IF ~IsSome(from_str(f.bytes))
    THEN [kind |-> "Invalid", data |-> EmptyVB, mtime_ns |-> f.mtime,
          sha256_hexdigest |-> sha256_hex_hash(f.bytes)]
    ELSE [kind |-> "Parsed", data |-> Unwrap(from_str(f.bytes)), mtime_ns |-> f.mtime,
          sha256_hexdigest |-> sha256_hex_hash(f.bytes)]

\* update_last_seen_metadata_on recording the mtime only
update_last_seen_mtime_only(info, state) ==
    [state EXCEPT !.toml_last_seen_mtime_ns = Some(info.mtime_ns)]

\* ParsedToml / TomlFileState :: update_last_seen_metadata_on
update_last_seen_metadata_on(info, state) ==
    [state EXCEPT !.toml_last_seen_mtime_ns = Some(info.mtime_ns),
                  !.toml_last_seen_sha256 = Some(info.sha256_hexdigest)]

\* toml_compare deciding on the mtime alone
toml_compare_mtime_only(state, mtime_ns, sha256) ==
    IF ~IsSome(state.toml_last_seen_mtime_ns) THEN "Greater"
    ELSE IF mtime_ns > Unwrap(state.toml_last_seen_mtime_ns) THEN "Greater"
    ELSE IF mtime_ns < Unwrap(state.toml_last_seen_mtime_ns) THEN "Less"
    ELSE "Equal"

\* toml_compare taking an older file for a newer one
toml_compare_never_older(state, mtime_ns, sha256) ==
    IF ~IsSome(state.toml_last_seen_mtime_ns) THEN "Greater"
    ELSE IF mtime_ns = Unwrap(state.toml_last_seen_mtime_ns)
            /\ IsSome(state.toml_last_seen_sha256)
            /\ Unwrap(state.toml_last_seen_sha256) = sha256
    THEN "Equal"
    ELSE "Greater"

\* toml_compare taking a file with the last-seen mtime and SHA-256 for an older one
toml_compare_equal_is_older(state, mtime_ns, sha256) ==
    IF ~IsSome(state.toml_last_seen_mtime_ns) THEN "Greater"
    ELSE IF mtime_ns > Unwrap(state.toml_last_seen_mtime_ns) THEN "Greater"
    ELSE IF mtime_ns < Unwrap(state.toml_last_seen_mtime_ns) THEN "Less"
    ELSE IF IsSome(state.toml_last_seen_sha256)
            /\ Unwrap(state.toml_last_seen_sha256) = sha256
    THEN "Less"
    ELSE "Greater"

\* toml_compare: the file against the store's last-seen metadata
toml_compare(state, mtime_ns, sha256) ==
    IF ~IsSome(state.toml_last_seen_mtime_ns) THEN "Greater"
    ELSE IF mtime_ns > Unwrap(state.toml_last_seen_mtime_ns) THEN "Greater"
    ELSE IF mtime_ns < Unwrap(state.toml_last_seen_mtime_ns) THEN "Less"
    ELSE IF IsSome(state.toml_last_seen_sha256)
            /\ Unwrap(state.toml_last_seen_sha256) = sha256
    THEN "Equal"
    ELSE "Greater"

\* snapshot_state(..)?.unwrap_or_default()
snapshot_state_or_default(t) ==
    LET got == get_snapshot(t)
    IN  IF IsSome(got) THEN Unwrap(got) ELSE DefaultSnapshot

\* persist_snapshot: replace_snapshot on the transaction, or an I/O error of the store
persist_snapshot(t, snapshot, io_error) ==
    IF io_error THEN [ok |-> FALSE, t |-> t] ELSE replace_snapshot(t, snapshot)

(***************************************************************************)
(* ensure_vb_storage_in_sync, inside the caller's transaction.             *)
(* t: the store as the transaction sees it; f: the file; w: the mtime a    *)
(* write of the file gets; io_error: persist_snapshot fails on the store.  *)
(* Result: [ok, t, file, vb, branch].                                      *)
(***************************************************************************)
\* ImportParsed recording the file's metadata without taking its content
ImportParsed_metadata_only(t, f, state, parsed, io_error, branch) ==
    LET kept == [snapshot_state_or_default(t) EXCEPT
                    !.state = update_last_seen_metadata_on(parsed, state)]
        done == persist_snapshot(t, kept, io_error)
    IN  [ok |-> done.ok, t |-> done.t, file |-> f, vb |-> parsed.data, branch |-> branch]

\* The branches that overwrite the store with the parsed file.
ImportParsed(t, f, state, parsed, io_error, branch) ==
    LET conv == legacy_to_snapshot(
                    parsed.data,
                    into_db_toml_file_info(update_last_seen_metadata_on(parsed, state)))
        done == persist_snapshot(t, conv.snap, io_error)
    IN  IF ~conv.ok
        THEN [ok |-> FALSE, t |-> t, file |-> f, vb |-> parsed.data, branch |-> branch]
        ELSE [ok |-> done.ok, t |-> done.t, file |-> f, vb |-> parsed.data,
              branch |-> branch]

\* RewriteFile writing the document of the empty workspace
RewriteFile_writes_empty(t, snapshot, data, w, io_error, branch) ==
    LET wr == write_toml(EmptyVB, w)
        updated == [snapshot EXCEPT
                       !.state = update_last_seen_metadata_on(wr.info, snapshot.state)]
        done == persist_snapshot(t, updated, io_error)
    IN  [ok |-> done.ok, t |-> done.t, file |-> wr.file, vb |-> data, branch |-> branch]

\* The branches that write the file from `data` and persist `snapshot` with the new
\* last-seen metadata.
RewriteFile(t, snapshot, data, w, io_error, branch) ==
    LET wr == write_toml(data, w)
        updated == [snapshot EXCEPT
                       !.state = update_last_seen_metadata_on(wr.info, snapshot.state)]
        done == persist_snapshot(t, updated, io_error)
    IN  [ok |-> done.ok, t |-> done.t, file |-> wr.file, vb |-> data, branch |-> branch]

\* EnsureUninitialized that never looks at the file
EnsureUninitialized_ignores_file(t, f, snapshot, toml_info, w, io_error) ==
    LET state == [snapshot.state EXCEPT !.initialized = TRUE]
        wr == write_toml(EmptyVB, w)
        conv == legacy_to_snapshot(
                    EmptyVB,
                    into_db_toml_file_info(update_last_seen_metadata_on(wr.info, state)))
        done == persist_snapshot(t, conv.snap, io_error)
    IN  [ok |-> conv.ok /\ done.ok, t |-> done.t, file |-> wr.file,
         vb |-> EmptyVB, branch |-> "init_empty"]

\* if !snapshot.state.initialized { .. }
EnsureUninitialized(t, f, snapshot, toml_info, w, io_error) ==
    LET state == [snapshot.state EXCEPT !.initialized = TRUE]
    IN  IF toml_info.kind = "Parsed"
        THEN ImportParsed(t, f, state, toml_info, io_error, "init_import")
        ELSE LET wr == write_toml(EmptyVB, w)
                 conv == legacy_to_snapshot(
                             EmptyVB,
                             into_db_toml_file_info(
                                 update_last_seen_metadata_on(wr.info, state)))
                 done == persist_snapshot(t, conv.snap, io_error)
             IN  [ok |-> conv.ok /\ done.ok, t |-> done.t, file |-> wr.file,
                  vb |-> EmptyVB, branch |-> "init_empty"]

\* EnsureInitialized rewriting the file also when it compares equal
EnsureInitialized_rewrites_equal(t, f, snapshot, toml_info, w, io_error) ==
    LET conv == snapshot_to_legacy(snapshot)
        db_data == conv.vb
        cmp == toml_compare(snapshot.state, toml_info.mtime_ns, toml_info.sha256_hexdigest)
    IN  IF ~conv.ok
        THEN [ok |-> FALSE, t |-> t, file |-> f, vb |-> db_data, branch |-> "error"]
        ELSE IF toml_info.kind = "Missing"
        THEN RewriteFile(t, snapshot, db_data, w, io_error, "rewrite_missing")
        ELSE IF toml_info.kind = "Invalid"
        THEN RewriteFile(t, snapshot, db_data, w, io_error, "rewrite_invalid")
        ELSE IF cmp = "Greater"
        THEN ImportParsed(t, f, snapshot.state, toml_info, io_error, "import_newer")
        ELSE RewriteFile(t, snapshot, db_data, w, io_error, "rewrite_older")

\* match toml_info { .. } on an initialized store
EnsureInitialized(t, f, snapshot, toml_info, w, io_error) ==
    LET conv == snapshot_to_legacy(snapshot)
        db_data == conv.vb
        cmp == toml_compare(snapshot.state, toml_info.mtime_ns, toml_info.sha256_hexdigest)
    IN  IF ~conv.ok
        THEN [ok |-> FALSE, t |-> t, file |-> f, vb |-> db_data, branch |-> "error"]
        ELSE IF toml_info.kind = "Missing"
        THEN RewriteFile(t, snapshot, db_data, w, io_error, "rewrite_missing")
        ELSE IF toml_info.kind = "Invalid"
        THEN RewriteFile(t, snapshot, db_data, w, io_error, "rewrite_invalid")
        ELSE IF cmp = "Greater"
        THEN ImportParsed(t, f, snapshot.state, toml_info, io_error, "import_newer")
        ELSE IF cmp = "Equal"
        THEN [ok |-> TRUE, t |-> t, file |-> f, vb |-> db_data, branch |-> "equal"]
        ELSE RewriteFile(t, snapshot, db_data, w, io_error, "rewrite_older")

ensure_vb_storage_in_sync(t, f, w, io_error) ==
    LET snapshot == snapshot_state_or_default(t)
        toml_info == read_toml_info(f)
    IN  IF ~snapshot.state.initialized
        THEN EnsureUninitialized(t, f, snapshot, toml_info, w, io_error)
        ELSE EnsureInitialized(t, f, snapshot, toml_info, w, io_error)

(***************************************************************************)
(* The public operations.  Each runs in one immediate transaction: the     *)
(* store keeps what the transaction did only if the function reaches       *)
(* tx.commit() and the commit succeeds; the file keeps whatever was        *)
(* written.  `fault` names what the environment does to the call:          *)
(*   "none"; "open" (opening the store, beginning the transaction or       *)
(*   reading it fails); "persist" (the store fails in the                  *)
(*   persist_snapshot of the reconciliation); "commit" (tx.commit()        *)
(*   fails); "crash" (the process dies right before tx.commit()).          *)
(* w is the mtime a write of the file gets; when a call writes twice only  *)
(* the last write decides the file and the metadata recorded, so one w     *)
(* serves both.                                                            *)
(* Result: [result, db, file, vb, branch], result in ok / error / crash.   *)
(***************************************************************************)
\* TransactionEnd keeping the work of a transaction that was dropped
TransactionEnd_keeps_work(before, committed, t) == t

\* tx.commit() on the success path; on every `?` the transaction is dropped unfinished
TransactionEnd(before, committed, t) == IF committed THEN t ELSE before

\* How a call that got as far as tx.commit() ends.
Outcome(ok, fault) ==
    IF fault = "crash" THEN "crash" ELSE IF ok /\ fault # "commit" THEN "ok" ELSE "error"

\* a read that returns what the file holds whenever the file parses
read_synced_returns_file(d, f, w, fault) ==
    LET r == ensure_vb_storage_in_sync(d, f, w, fault = "persist")
        res == Outcome(r.ok, fault)
        info == read_toml_info(f)
    IN  IF fault = "open"
        THEN [result |-> "error", db |-> d, file |-> f, vb |-> EmptyVB, branch |-> "error"]
        ELSE [result |-> res, db |-> TransactionEnd(d, res = "ok", r.t), file |-> r.file,
              vb |-> IF info.kind = "Parsed" THEN info.data ELSE r.vb, branch |-> r.branch]

read_synced_virtual_branches(d, f, w, fault) ==
    LET r == ensure_vb_storage_in_sync(d, f, w, fault = "persist")
        res == Outcome(r.ok, fault)
    IN  IF fault = "open"
        THEN [result |-> "error", db |-> d, file |-> f, vb |-> EmptyVB, branch |-> "error"]
        ELSE [result |-> res, db |-> TransactionEnd(d, res = "ok", r.t), file |-> r.file,
              vb |-> r.vb, branch |-> r.branch]

write_virtual_branches_and_sync(d, f, vb, w, fault) ==
    LET r == ensure_vb_storage_in_sync(d, f, w, fault = "persist")
        db_state == [snapshot_state_or_default(r.t).state EXCEPT !.initialized = TRUE]
        conv == legacy_to_snapshot(vb, into_db_toml_file_info(db_state))
        wr == write_toml(vb, w)
        snapshot == [conv.snap EXCEPT
                        !.state = update_last_seen_metadata_on(wr.info, conv.snap.state)]
        done == persist_snapshot(r.t, snapshot, FALSE)
        res == Outcome(done.ok, fault)
    IN  IF fault = "open"
        THEN [result |-> "error", db |-> d, file |-> f, vb |-> vb, branch |-> "error"]
        ELSE IF ~r.ok \/ ~conv.ok
        THEN [result |-> "error", db |-> TransactionEnd(d, FALSE, r.t), file |-> r.file,
              vb |-> vb, branch |-> r.branch]
        ELSE [result |-> res, db |-> TransactionEnd(d, res = "ok", done.t),
              file |-> wr.file, vb |-> vb, branch |-> r.branch]

\* an import that leaves the last-seen mtime and SHA-256 of the store as they were
import_toml_into_db_keeps_last_seen(d, f, fault) ==
    LET info == read_toml_info(f)
        state == [snapshot_state_or_default(d).state EXCEPT !.initialized = TRUE]
        conv == legacy_to_snapshot(info.data, into_db_toml_file_info(state))
        done == persist_snapshot(d, conv.snap, fault = "persist")
        res == Outcome(conv.ok /\ done.ok, fault)
    IN  IF info.kind # "Parsed" \/ fault = "open"
        THEN [result |-> "error", db |-> d, file |-> f, vb |-> EmptyVB, branch |-> "error"]
        ELSE [result |-> res, db |-> TransactionEnd(d, res = "ok", done.t), file |-> f,
              vb |-> info.data, branch |-> "import_forced"]

import_toml_into_db(d, f, fault) ==
    LET info == read_toml_info(f)
        state == update_last_seen_metadata_on(
                     info, [snapshot_state_or_default(d).state EXCEPT !.initialized = TRUE])
        conv == legacy_to_snapshot(info.data, into_db_toml_file_info(state))
        done == persist_snapshot(d, conv.snap, fault = "persist")
        res == Outcome(conv.ok /\ done.ok, fault)
    IN  IF info.kind # "Parsed" \/ fault = "open"
        THEN [result |-> "error", db |-> d, file |-> f, vb |-> EmptyVB, branch |-> "error"]
        ELSE [result |-> res, db |-> TransactionEnd(d, res = "ok", done.t), file |-> f,
              vb |-> info.data, branch |-> "import_forced"]

(***************************************************************************)
(* Inputs: the workspace states callers pass and hand edits put into the   *)
(* file.                                                                   *)
(***************************************************************************)
TargetMain == Target(RemoteRefname("origin", "main"), "url", "c0", None)

TargetFork == Target(RemoteRefname("fork", "dev"), "url2", "c1", Some("fork"))

HeadA == StackBranch("a", "c1")

HeadB == StackBranch("b", "c2")

StackOne == Stack(Some(RemoteRefname("origin", "one")), MaxOrder, TRUE, <<HeadA, HeadB>>, "s1")

StackTwo == Stack(None, 0, FALSE, <<HeadB>>, "s2")

\* {S1}
VbOne == VirtualBranches(Some(TargetMain), <<>>, (1 :> StackOne), Some("c0"))

\* {S1, S2, S3}: S2 and S3 sort before S1 by order and after it by id, and tie with
\* each other on the order; S1's heads are swapped; S2 and S3 have their own targets
VbMany == VirtualBranches(Some(TargetFork), (2 :> TargetMain) @@ (3 :> TargetFork),
                          (1 :> [StackOne EXCEPT !.heads = <<HeadB, HeadA>>])
                              @@ (2 :> StackTwo)
                              @@ (3 :> Stack(None, 0, TRUE, <<>>, "s3")),
                          None)

\* a branch target for a stack that is not in `branches`
VbDangling == VirtualBranches(Some(TargetMain), (2 :> TargetFork), (1 :> StackTwo), None)

\* a stack order above i64::MAX
VbHuge == VirtualBranches(None, <<>>,
                          (1 :> Stack(None, MaxOrder + 1, TRUE, <<HeadA>>, "s1")), None)

\* what write_virtual_branches_and_sync may be called with
CallerStates == {EmptyVB, VbOne, VbMany, VbDangling, VbHuge}

\* what a TOML document can hold: its integers are i64
FileStates ==
    {vb \in CallerStates : \A sid \in DOMAIN vb.branches : FitsI64(vb.branches[sid].order)}

FileBytes == {Garbage} \cup {to_string(vb) : vb \in FileStates}

Faults == {"none", "open", "persist", "commit", "crash"}

ImportFaults == {"none", "open", "persist", "commit"}

\* stores nobody synchronised yet: no state row; a state row with initialized = 0;
\* a state row marked initialized that has seen no file
InitialStores ==
    {EmptyDb, set_state(EmptyDb, DefaultVbState),
     set_state(EmptyDb, [DefaultVbState EXCEPT !.initialized = TRUE])}

(***************************************************************************)
(* State.  db: the committed content of the store; file: the TOML file;    *)
(* last: the call that led here: which operation, how it ended, which      *)
(* branch of the reconciliation it took, whether it changed the file, and  *)
(* `after`: "error" or "crash" when the call right before it was abandoned *)
(* that way with the file already rewritten, else "none".                  *)
(***************************************************************************)
External ==
    [op |-> "external", result |-> "ok", branch |-> "none", wrote |-> FALSE,
     after |-> "none"]

\* procs, editor and repo belong to the specifications further down: the connections
\* or calls running side by side, the step graph under edit, the commits of a stack
Unused == "unused"

Alone == UNCHANGED <<procs, editor, repo>>

Init ==
    /\ db \in InitialStores
    /\ file = MissingFile
    /\ last = [op |-> "init", result |-> "ok", branch |-> "none", wrote |-> FALSE,
               after |-> "none"]
    /\ procs = Unused /\ editor = Unused /\ repo = Unused

Apply(op, r) ==
    /\ db' = r.db
    /\ file' = r.file
    /\ last' = [op |-> op, result |-> r.result, branch |-> r.branch,
                wrote |-> r.file # file,
                after |-> IF last.result # "ok" /\ last.wrote THEN last.result ELSE "none"]
    /\ Alone

ReadSynced ==
    \E w \in Times, fault \in Faults :
        Apply("read", read_synced_virtual_branches(db, file, w, fault))

WriteSynced ==
    \E vb \in CallerStates, w \in Times, fault \in Faults :
        Apply("write", write_virtual_branches_and_sync(db, file, vb, w, fault))

ImportToml ==
    \E fault \in ImportFaults :
        Apply("import", import_toml_into_db(db, file, fault))

\* Somebody else replaces, corrupts, touches or deletes the file between two calls.
ExternalEdit ==
    \E bytes \in FileBytes, t \in Times :
        /\ file' = [exists |-> TRUE, bytes |-> bytes, mtime |-> t]
        /\ db' = db
        /\ last' = External
        /\ Alone

ExternalDelete ==
    /\ file.exists
    /\ file' = MissingFile
    /\ db' = db
    /\ last' = External
    /\ Alone

Next ==
    \/ ReadSynced
    \/ WriteSynced
    \/ ImportToml
    \/ ExternalEdit
    \/ ExternalDelete

Spec == Init /\ [][Next]_vars

(***************************************************************************)
(* The store on its own: replace_snapshot and set_state called with any    *)
(* snapshot a caller can build, well-formed or not.  The rows are those of *)
(* VbMany, plus a head for a stack the snapshots never contain; a snapshot *)
(* lists up to MaxRows rows per table, repetitions included.               *)
(***************************************************************************)
MaxRows == 2

RECURSIVE SeqsUpTo(_, _)
SeqsUpTo(S, n) ==
    IF n = 0 THEN {<<>>}
    ELSE LET shorter == SeqsUpTo(S, n - 1)
         IN  shorter \cup {Append(q, x) : q \in shorter, x \in S}

ManyRows == legacy_to_snapshot(VbMany, into_db_toml_file_info(DefaultVbState)).snap

StackRows == {r \in Range(ManyRows.stacks) : r.id \in {1, 2}}

HeadRows == Range(ManyRows.heads) \cup {[ManyRows.heads[1] EXCEPT !.stack_id = 3]}

TargetRows == Range(ManyRows.branch_targets)

StateRows == {ManyRows.state, [DefaultVbState EXCEPT !.initialized = TRUE]}

Snapshots ==
    {[state |-> st, stacks |-> ss, heads |-> hs, branch_targets |-> ts] :
        st \in StateRows, ss \in SeqsUpTo(StackRows, MaxRows),
        hs \in SeqsUpTo(HeadRows, MaxRows), ts \in SeqsUpTo(TargetRows, MaxRows)}

ReplaceSnapshot ==
    \E snapshot \in Snapshots :
        LET r == replace_snapshot(db, snapshot)
        IN  /\ db' = r.t
            /\ file' = file
            /\ last' = [External EXCEPT !.op = "replace_snapshot",
                                        !.result = IF r.ok THEN "ok" ELSE "error"]
            /\ Alone

SetState ==
    \E state \in StateRows :
        /\ db' = set_state(db, state)
        /\ file' = file
        /\ last' = [External EXCEPT !.op = "set_state"]
        /\ Alone

NextDb ==
    \/ ReplaceSnapshot
    \/ SetState

SpecDb == Init /\ [][NextDb]_vars

(***************************************************************************)
(* Vocabulary of the properties.                                           *)
(***************************************************************************)
\* the workspace state held in the store d
Content(d) == snapshot_to_legacy(snapshot_state_or_default(d)).vb

Initialized(d) == IsSome(d.state) /\ Unwrap(d.state).initialized

Parseable(f) == f.exists /\ IsSome(from_str(f.bytes))

\* the last-seen mtime and SHA-256 of the state row are those of the file f
LastSeenMatches(d, f) ==
    /\ f.exists
    /\ IsSome(d.state)
    /\ Unwrap(d.state).toml_last_seen_mtime_ns = Some(f.mtime)
    /\ Unwrap(d.state).toml_last_seen_sha256 = Some(sha256_hex_hash(f.bytes))

\* the file parses to the workspace state the store holds
Agree(d, f) == Parseable(f) /\ Unwrap(from_str(f.bytes)) = Content(d)

\* d2 is d1 with at most the last-seen mtime/sha of the state row changed
SameButLastSeen(d1, d2) ==
    /\ IsSome(d1.state) /\ IsSome(d2.state)
    /\ d2.stacks = d1.stacks /\ d2.heads = d1.heads /\ d2.targets = d1.targets
    /\ [Unwrap(d2.state) EXCEPT !.toml_last_seen_mtime_ns = None,
                                !.toml_last_seen_sha256 = None]
       = [Unwrap(d1.state) EXCEPT !.toml_last_seen_mtime_ns = None,
                                  !.toml_last_seen_sha256 = None]

\* the file is newer than what the store has last seen, in the sense of the claim
FileNewer(d, f) ==
    /\ IsSome(Unwrap(d.state).toml_last_seen_mtime_ns)
    /\ \/ f.mtime > Unwrap(Unwrap(d.state).toml_last_seen_mtime_ns)
       \/ /\ f.mtime = Unwrap(Unwrap(d.state).toml_last_seen_mtime_ns)
          /\ Unwrap(d.state).toml_last_seen_sha256 # Some(sha256_hex_hash(f.bytes))

FileOlder(d, f) ==
    /\ IsSome(Unwrap(d.state).toml_last_seen_mtime_ns)
    /\ f.mtime < Unwrap(Unwrap(d.state).toml_last_seen_mtime_ns)

(***************************************************************************)
(* C1.  After read_synced_virtual_branches returns successfully, the       *)
(* last-seen mtime and SHA-256 in the state row are those of the file on   *)
(* disk, whatever the store and the file were before.                      *)
(***************************************************************************)
C1_LastSeenIsFile ==
    (last.op = "read" /\ last.result = "ok") => LastSeenMatches(db, file)

C1_Witness ==
    /\ last.op = "read" /\ last.result = "ok" /\ last.branch = "rewrite_older"
    /\ LastSeenMatches(db, file)
    /\ Content(db) = VbMany

C3_StaleFileRewritten ==
    (Initialized(db) /\ (~Parseable(file) \/ FileOlder(db, file))) =>
        \A w \in Times :
            LET r == read_synced_virtual_branches(db, file, w, "none")
            IN  /\ r.result = "ok"
                /\ r.file = write_toml(Content(db), w).file
                /\ SameButLastSeen(db, r.db)
                /\ Content(r.db) = Content(db)

C3_Witness ==
    /\ last.op = "read" /\ last.result = "ok"
    /\ last.branch \in {"rewrite_missing", "rewrite_invalid", "rewrite_older"}
    /\ last.wrote
    /\ Content(db) = VbOne

HeadsRenumbered(d, vb) ==
    /\ \A h \in d.heads : h.stack_id \in DOMAIN vb.branches
    /\ \A sid \in DOMAIN vb.branches :
           {<<h.position, h.name, h.head_sha>> : h \in {x \in d.heads : x.stack_id = sid}}
           = {<<i - 1, vb.branches[sid].heads[i].name, vb.branches[sid].heads[i].head>> :
                 i \in 1..Len(vb.branches[sid].heads)}

StacksOrdered(snap) ==
    \A i, j \in DOMAIN snap.stacks :
        i < j => KeyLess(<<snap.stacks[i].sort_order, snap.stacks[i].id>>,
                         <<snap.stacks[j].sort_order, snap.stacks[j].id>>)

C9_ErrorLeavesStore ==
    /\ \A w \in Times, fault \in Faults :
           LET r == read_synced_virtual_branches(db, file, w, fault)
           IN  r.result = "error" => r.db = db
    /\ \A vb \in CallerStates :
           LET errors == {r \in {write_virtual_branches_and_sync(db, file, vb, w, fault) :
                                    w \in Times, fault \in Faults} : r.result = "error"}
           IN  /\ \A r \in errors : r.db = db
               /\ \A left \in {<<r.db, r.file>> : r \in errors}, w2 \in Times :
                      LET again == write_virtual_branches_and_sync(left[1], left[2], vb, w2, "none")
                      IN  again.result = "ok" => Content(again.db) = vb

C9_Witness ==
    /\ last.op = "write" /\ last.result = "error" /\ last.branch = "import_newer"
    /\ Parseable(file) /\ ~Agree(db, file)
    /\ Content(db) = VbOne
(***************************************************************************)
(* C10.  replace_snapshot is all-or-nothing on the store: when it returns  *)
(* an error the four tables are exactly as before the call; when it        *)
(* succeeds the state row and the stack, head and target rows are exactly  *)
(* those of the snapshot given.                                            *)
(***************************************************************************)
C10_ReplaceAllOrNothing ==
    \A snapshot \in Snapshots :
        LET r == replace_snapshot(db, snapshot)
        IN  /\ ~r.ok => r.t = db
            /\ r.ok => r.t = [state |-> Some(snapshot.state),
                              stacks |-> Range(snapshot.stacks),
                              heads |-> Range(snapshot.heads),
                              targets |-> Range(snapshot.branch_targets)]

C10_Witness ==
    /\ last.op = "replace_snapshot" /\ last.result = "error"
    /\ Cardinality(db.stacks) = 2 /\ db.heads # {} /\ db.targets # {}

(***************************************************************************)
(* Two connections on the store: one runs get_snapshot in autocommit mode, *)
(* the other replace_snapshot under the savepoint of virtual_branches_mut. *)
(* db is the committed content.  A transaction reads the content committed *)
(* when it first read (WAL), or holds the shared lock from its first read  *)
(* so that nobody commits until it ends (rollback journal); a statement    *)
(* outside a transaction reads what is committed when it runs.  The        *)
(* writer's statements work on a copy that becomes db at the release of    *)
(* the savepoint.                                                          *)
(* procs = [wal, r, w]:                                                    *)
(*   r = [pc, tx, view, got, versions]: the reader's position, whether it  *)
(*       opened a read transaction, the content its transaction reads,     *)
(*       the rows it has collected, the contents committed during the call *)
(*   w = [pc, t, snapshot]: the writer's position, its working copy, the   *)
(*       snapshot it is writing.                                           *)
(***************************************************************************)
\* if self.conn.is_autocommit() { BEGIN DEFERRED TRANSACTION } without the BEGIN
started_read_tx_never(autocommit) == FALSE

\* let started_read_tx = if self.conn.is_autocommit() { BEGIN DEFERRED TRANSACTION; true }
started_read_tx(autocommit) == autocommit

\* the four SELECTs of get_snapshot, each on the content t its statement reads
SelectState(t) == t.state

SelectStacks(t) == SortKeyed({<< <<r.sort_order, r.id>>, r >> : r \in t.stacks})

SelectHeads(t) == SortKeyed({<< <<r.stack_id, r.position>>, r >> : r \in t.heads})

SelectTargets(t) == SortKeyed({<< <<r.stack_id, 0>>, r >> : r \in t.targets})

ReaderIdle == [pc |-> "idle", tx |-> FALSE, view |-> None, got |-> None, versions |-> {}]

WriterIdle == [pc |-> "idle", t |-> EmptyDb, snapshot |-> DefaultSnapshot]

\* the snapshots the writer replaces the store with; the last one fails on its target
ConnSnapshots ==
    {legacy_to_snapshot(vb, into_db_toml_file_info(DefaultVbState)).snap :
        vb \in {EmptyVB, VbOne, VbMany, VbDangling}}

InitConn ==
    /\ db \in InitialStores \cup {replace_snapshot(EmptyDb, ManyRows).t}
    /\ file = MissingFile
    /\ last = External
    /\ procs \in {[wal |-> wal, r |-> ReaderIdle, w |-> WriterIdle] : wal \in BOOLEAN}
    /\ editor = Unused /\ repo = Unused

ConnFrame == UNCHANGED <<file, last, editor, repo>>

\* the content the reader's next statement reads
ReaderView == IF procs.r.tx /\ IsSome(procs.r.view) THEN Unwrap(procs.r.view) ELSE db

\* the reader holds the shared lock of a rollback-journal store
ReaderLocks == ~procs.wal /\ procs.r.tx /\ IsSome(procs.r.view)

GetSnapshotBegin ==
    /\ procs.r.pc = "idle"
    /\ procs' = [procs EXCEPT !.r = [ReaderIdle EXCEPT !.pc = "state",
                                                       !.tx = started_read_tx(TRUE),
                                                       !.versions = {db}]]
    /\ db' = db
    /\ ConnFrame

\* SELECT .. FROM vb_state WHERE id = 1; Ok(None) when there is no row
GetSnapshotState ==
    /\ procs.r.pc = "state"
    /\ LET state == SelectState(ReaderView)
       IN  procs' = [procs EXCEPT
                        !.r.view = Some(ReaderView),
                        !.r.pc = IF IsSome(state) THEN "stacks" ELSE "done",
                        !.r.got = IF IsSome(state)
                                  THEN Some([DefaultSnapshot EXCEPT !.state = Unwrap(state)])
                                  ELSE None]
    /\ db' = db
    /\ ConnFrame

GetSnapshotRows ==
    /\ procs.r.pc \in {"stacks", "heads", "targets"}
    /\ LET got == Unwrap(procs.r.got)
       IN  procs' = [procs EXCEPT
                        !.r.pc = CASE procs.r.pc = "stacks" -> "heads"
                                   [] procs.r.pc = "heads" -> "targets"
                                   [] OTHER -> "done",
                        !.r.got = Some(
                            CASE procs.r.pc = "stacks" ->
                                     [got EXCEPT !.stacks = SelectStacks(ReaderView)]
                              [] procs.r.pc = "heads" ->
                                     [got EXCEPT !.heads = SelectHeads(ReaderView)]
                              [] OTHER ->
                                     [got EXCEPT !.branch_targets = SelectTargets(ReaderView)])]
    /\ db' = db
    /\ ConnFrame

\* COMMIT of the read transaction and return to the caller
GetSnapshotReturn ==
    /\ procs.r.pc = "done"
    /\ procs' = [procs EXCEPT !.r = ReaderIdle]
    /\ db' = db
    /\ ConnFrame

\* virtual_branches_mut(): self.conn.savepoint()
ReplaceBegin ==
    /\ procs.w.pc = "idle"
    /\ \E snapshot \in ConnSnapshots :
           procs' = [procs EXCEPT !.w = [pc |-> "state", t |-> db, snapshot |-> snapshot]]
    /\ db' = db
    /\ ConnFrame

\* one statement group of replace_snapshot on the working copy; an error drops the
\* handle and with it the savepoint
ReplaceStatement ==
    /\ procs.w.pc \in {"state", "delete", "stacks", "heads", "targets"}
    /\ LET t == procs.w.t
           snapshot == procs.w.snapshot
           run == CASE procs.w.pc = "state" ->
                           [ok |-> TRUE, t |-> set_state_in_place(t, snapshot.state)]
                    [] procs.w.pc = "delete" -> [ok |-> TRUE, t |-> DeleteAllStacks(t)]
                    [] procs.w.pc = "stacks" -> InsertStacks(t, snapshot.stacks)
                    [] procs.w.pc = "heads" -> InsertHeads(t, snapshot.heads)
                    [] OTHER -> InsertTargets(t, snapshot.branch_targets)
           next == CASE procs.w.pc = "state" -> "delete"
                     [] procs.w.pc = "delete" -> "stacks"
                     [] procs.w.pc = "stacks" -> "heads"
                     [] procs.w.pc = "heads" -> "targets"
                     [] OTHER -> "commit"
       IN  procs' = [procs EXCEPT !.w = IF run.ok THEN [procs.w EXCEPT !.pc = next, !.t = run.t]
                                        ELSE WriterIdle]
    /\ db' = db
    /\ ConnFrame

\* sp.commit(): the working copy becomes the committed content, unless a reader holds
\* the shared lock, in which case the commit fails and the savepoint is dropped
ReplaceCommit ==
    /\ procs.w.pc = "commit"
    /\ db' = IF ReaderLocks THEN db ELSE procs.w.t
    /\ procs' = [procs EXCEPT
                    !.w = WriterIdle,
                    !.r.versions = IF procs.r.pc \in {"idle", "done"} THEN @ ELSE @ \cup {db'}]
    /\ ConnFrame

NextConn ==
    \/ GetSnapshotBegin
    \/ GetSnapshotState
    \/ GetSnapshotRows
    \/ GetSnapshotReturn
    \/ ReplaceBegin
    \/ ReplaceStatement
    \/ ReplaceCommit

SpecConn == InitConn /\ [][NextConn]_vars

(***************************************************************************)
(* C11.  A get_snapshot that runs while another connection replaces the    *)
(* snapshot returns what get_snapshot yields on one of the contents        *)
(* committed during the call (the one before the replacement or the one    *)
(* after it), never rows of two of them.                                   *)
(***************************************************************************)
C11_ReaderSeesOneCommit ==
    procs.r.pc = "done" =>
        procs.r.got \in {get_snapshot(d) : d \in procs.r.versions}

C11_Witness ==
    /\ procs.r.pc = "done"
    /\ Cardinality(procs.r.versions) = 2
    /\ IsSome(procs.r.got)
    /\ procs.r.got # get_snapshot(db)
    /\ Unwrap(procs.r.got).heads # <<>>

(***************************************************************************)
(* Two calls of the sync functions for the same project running side by    *)
(* side, each on its own connection.  db.immediate_transaction() takes the *)
(* store's write lock and waits while the other call holds it; what a call *)
(* does to the store stays in its transaction until tx.commit(); what it   *)
(* does to the file is there at once.                                      *)
(* procs = [start, lock, p]: the store and file when the two calls were    *)
(* made, the call holding the write lock (0: nobody), and per call         *)
(* [pc, op, seen, t, result]: its position, what was called, the file as   *)
(* import_toml_into_db read it, the store as its transaction leaves it,    *)
(* and how the call ends.                                                  *)
(***************************************************************************)
SyncCallers == {1, 2}

SyncOps ==
    {[kind |-> "read", vb |-> EmptyVB, w |-> w] : w \in Times}
        \cup {[kind |-> "write", vb |-> vb, w |-> w] : vb \in {VbOne, VbMany}, w \in Times}
        \cup {[kind |-> "import", vb |-> EmptyVB, w |-> 0]}

CallIdle ==
    [pc |-> "idle", op |-> [kind |-> "read", vb |-> EmptyVB, w |-> 0], seen |-> MissingFile,
     t |-> EmptyDb, result |-> "ok"]

InitSync ==
    /\ db \in InitialStores
    /\ file = MissingFile
    /\ last = External
    /\ procs = [start |-> [db |-> db, file |-> file], lock |-> 0,
                p |-> [i \in SyncCallers |-> CallIdle]]
    /\ editor = Unused /\ repo = Unused

SyncFrame == UNCHANGED <<last, editor, repo>>

\* both callers call
SyncCall ==
    /\ \A i \in SyncCallers : procs.p[i].pc = "idle"
    /\ \E ops \in [SyncCallers -> SyncOps] :
           procs' = [start |-> [db |-> db, file |-> file], lock |-> 0,
                     p |-> [i \in SyncCallers |-> [CallIdle EXCEPT !.pc = "called",
                                                                   !.op = ops[i]]]]
    /\ UNCHANGED <<db, file>>
    /\ SyncFrame

\* import_toml_into_db: let info = read_toml_info(path)?, before the store is opened
SyncReadToml(i) ==
    /\ procs.p[i].pc = "called"
    /\ procs.p[i].op.kind = "import"
    /\ procs' = [procs EXCEPT !.p[i].pc = "read", !.p[i].seen = file]
    /\ UNCHANGED <<db, file>>
    /\ SyncFrame

\* db_handle_from_toml_path(path)?; db.immediate_transaction()?
SyncLock(i) ==
    /\ procs.p[i].pc = IF procs.p[i].op.kind = "import" THEN "read" ELSE "called"
    /\ procs.lock = 0
    /\ procs' = [procs EXCEPT !.lock = i, !.p[i].pc = "locked"]
    /\ UNCHANGED <<db, file>>
    /\ SyncFrame

\* everything up to tx.commit(): r is what the body of the call makes of the store and
\* the file it finds
SyncRun(i, r) ==
    /\ procs.p[i].pc = "locked"
    /\ file' = r.file
    /\ procs' = [procs EXCEPT !.p[i].pc = "commit", !.p[i].t = r.db,
                              !.p[i].result = r.result]
    /\ db' = db
    /\ SyncFrame

SyncRunRead(i) ==
    /\ procs.p[i].op.kind = "read"
    /\ SyncRun(i, read_synced_virtual_branches(db, file, procs.p[i].op.w, "none"))

SyncRunWrite(i) ==
    /\ procs.p[i].op.kind = "write"
    /\ SyncRun(i, write_virtual_branches_and_sync(db, file, procs.p[i].op.vb,
                                                  procs.p[i].op.w, "none"))

\* import_toml_into_db works from the file it read before it took the transaction
SyncRunImport(i) ==
    /\ procs.p[i].op.kind = "import"
    /\ SyncRun(i, [import_toml_into_db(db, procs.p[i].seen, "none") EXCEPT !.file = file])

\* tx.commit(), or the transaction dropped by the `?` that left the function
SyncCommit(i) ==
    /\ procs.p[i].pc = "commit"
    /\ db' = procs.p[i].t
    /\ procs' = [procs EXCEPT !.lock = 0, !.p[i].pc = "done"]
    /\ file' = file
    /\ SyncFrame

\* both calls have returned
SyncReturn ==
    /\ \A i \in SyncCallers : procs.p[i].pc = "done"
    /\ procs' = [procs EXCEPT !.p = [i \in SyncCallers |-> CallIdle]]
    /\ UNCHANGED <<db, file>>
    /\ SyncFrame

NextSync ==
    \/ SyncCall
    \/ \E i \in SyncCallers : SyncReadToml(i)
    \/ \E i \in SyncCallers : SyncLock(i)
    \/ \E i \in SyncCallers : SyncRunRead(i)
    \/ \E i \in SyncCallers : SyncRunWrite(i)
    \/ \E i \in SyncCallers : SyncRunImport(i)
    \/ \E i \in SyncCallers : SyncCommit(i)
    \/ SyncReturn

SpecSync == InitSync /\ [][NextSync]_vars

\* what a call makes of the store d and the file f when it runs alone
SyncBody(call, d, f) ==
    CASE call.op.kind = "read" -> read_synced_virtual_branches(d, f, call.op.w, "none")
      [] call.op.kind = "write" ->
             write_virtual_branches_and_sync(d, f, call.op.vb, call.op.w, "none")
      [] OTHER -> [import_toml_into_db(d, call.seen, "none") EXCEPT !.file = f]

\* the store and file after the call `op` alone on store and file s
AfterCall(op, s) ==
    LET r == SyncBody([CallIdle EXCEPT !.op = op, !.seen = s.file], s.db, s.file)
    IN  [db |-> r.db, file |-> r.file]

(***************************************************************************)
(* C12.  When two sync calls made concurrently have both returned, the     *)
(* store and the file are those that running the two calls one after the   *)
(* other, in one of the two orders, would have produced, and when both     *)
(* calls succeeded the file parses to what the store holds.                *)
(***************************************************************************)
C12_SyncCallsSerialized ==
    (\A i \in SyncCallers : procs.p[i].pc = "done") =>
        /\ [db |-> db, file |-> file]
               \in {AfterCall(procs.p[2].op, AfterCall(procs.p[1].op, procs.start)),
                    AfterCall(procs.p[1].op, AfterCall(procs.p[2].op, procs.start))}
        /\ (\A i \in SyncCallers : procs.p[i].result = "ok") => Agree(db, file)

(***************************************************************************)
(* Commits and the replay of a commit on new parents (section 4.4).        *)
(* A tree maps each path to its content; a commit is the value             *)
(* [change, parents, tree, conflict, time, message] and is its own id: two *)
(* commits are the same object exactly when they agree on all of it.  The  *)
(* message is the list of its lines.  `conflict`                           *)
(* is absent on an ordinary commit; on a conflict-carrying commit it holds *)
(* the .conflict-base-0, .conflict-side-0 and .conflict-side-1 trees, and  *)
(* `tree` is the .auto-resolution.  `time` is the committer time.          *)
(***************************************************************************)
Paths == {"foo", "bar"}

Absent == "-"

EmptyTree == [p \in Paths |-> Absent]

Commit(change, parents, tree) ==
    [change |-> change, parents |-> parents, tree |-> tree, conflict |-> None, time |-> 0,
     message |-> <<change>>]

is_conflicted(commit) == IsSome(commit.conflict)

\* three-way merge of `theirs` into `ours` over `base`; where both sides changed a path
\* differently the path is in conflict and the resolution keeps ours
Merge3(base, ours, theirs) ==
    [tree |-> [p \in Paths |->
                  IF base[p] = theirs[p] THEN ours[p]
                  ELSE IF base[p] = ours[p] THEN theirs[p]
                  ELSE ours[p]],
     conflicts |-> {p \in Paths : base[p] # theirs[p] /\ base[p] # ours[p]
                                     /\ ours[p] # theirs[p]}]

\* the tree a commit brings and the tree it was made on
TheirsOf(commit) ==
    IF is_conflicted(commit) THEN Unwrap(commit.conflict).theirs ELSE commit.tree

BaseOf(commit) ==
    IF is_conflicted(commit) THEN Unwrap(commit.conflict).base
    ELSE IF commit.parents = <<>> THEN EmptyTree
    ELSE commit.parents[1].tree

\* a pick that stops the rebase when the merge conflicts, instead of recording it
CherryPick_clean_only(commit, new_parents, now) ==
    LET ours == IF new_parents = <<>> THEN EmptyTree ELSE new_parents[1].tree
        merged == Merge3(BaseOf(commit), ours, TheirsOf(commit))
    IN  IF merged.conflicts = {}
        THEN [ok |-> TRUE,
              commit |-> [change |-> commit.change, parents |-> new_parents,
                          tree |-> merged.tree, conflict |-> None, time |-> now,
                          message |-> commit.message]]
        ELSE [ok |-> FALSE, commit |-> commit]

\* the re-creation of `commit` on new_parents at time `now`: [ok, commit]; a conflict
\* is recorded in the commit and is no failure
CherryPick(commit, new_parents, now) ==
    LET ours == IF new_parents = <<>> THEN EmptyTree ELSE new_parents[1].tree
        merged == Merge3(BaseOf(commit), ours, TheirsOf(commit))
    IN  [ok |-> TRUE,
         commit |->
            [change |-> commit.change, parents |-> new_parents, tree |-> merged.tree,
             conflict |-> IF merged.conflicts = {} THEN None
                          ELSE Some([base |-> BaseOf(commit), ours |-> ours,
                                     theirs |-> TheirsOf(commit)]),
             time |-> now, message |-> commit.message]]

(***************************************************************************)
(* The step graph and its editor (section 4.3).  A graph is                *)
(* [steps, parents]: the step of each node and the ordered list of the     *)
(* nodes it stands on.  A reference step sits between the commit it names  *)
(* and that commit's children.                                             *)
(***************************************************************************)
Pick(id) == [kind |-> "pick", id |-> Some(id), name |-> ""]

Reference(name) == [kind |-> "reference", id |-> None, name |-> name]

StepNone == [kind |-> "none", id |-> None, name |-> ""]

RECURSIVE Dedup(_)
Dedup(q) ==
    IF q = <<>> THEN <<>>
    ELSE <<Head(q)>> \o Dedup(SelectSeq(Tail(q), LAMBDA x : x # Head(q)))

\* the nearest picks below the nodes `below`, in order, found by walking through the
\* steps that are not picks
RECURSIVE CollectPicks(_, _)
CollectPicks(graph, below) ==
    IF below = <<>> THEN <<>>
    ELSE LET h == Head(below)
             first == IF graph.steps[h].kind = "pick" THEN <<h>>
                      ELSE CollectPicks(graph, graph.parents[h])
         IN  Dedup(first \o CollectPicks(graph, Tail(below)))

collect_ordered_parents(graph, node) == CollectPicks(graph, graph.parents[node])

\* the pick node of a commit
select_commit(graph, id) ==
    CHOOSE n \in DOMAIN graph.steps : graph.steps[n].kind = "pick" /\ graph.steps[n].id = Some(id)

\* a lookup that takes the last of the ordered parents
find_reference_target_last(graph, node) ==
    LET parents == collect_ordered_parents(graph, node)
    IN  IF parents = <<>> THEN [ok |-> FALSE, node |-> node]
        ELSE [ok |-> TRUE, node |-> parents[Len(parents)]]

\* Editor::find_reference_target: [ok, node]
find_reference_target(graph, node) ==
    LET parents == collect_ordered_parents(graph, node)
    IN  IF parents = <<>> THEN [ok |-> FALSE, node |-> node]
        ELSE IF graph.steps[parents[1]].kind # "pick" THEN [ok |-> FALSE, node |-> node]
        ELSE [ok |-> TRUE, node |-> parents[1]]

\* the nodes from `top` down to `bottom` along the only parent of each
RECURSIVE RunOf(_, _, _)
RunOf(graph, top, bottom) ==
    IF top = bottom \/ Len(graph.parents[top]) # 1 THEN {top}
    ELSE {top} \cup RunOf(graph, graph.parents[top][1], bottom)

\* replace(selector, step)
replace(graph, node, step) == [graph EXCEPT !.steps[node] = step]

\* a disconnect that detaches the run and leaves its children without parents
disconnect_orphans_children(graph, top, bottom) ==
    [graph EXCEPT !.parents =
        [m \in DOMAIN graph.steps |->
            IF m = bottom THEN <<>>
            ELSE SelectSeq(graph.parents[m], LAMBDA n : n # top)]]

\* a disconnect that hands the children only the first parent of the run
disconnect_first_parent_only(graph, top, bottom) ==
    LET inherited == SubSeq(graph.parents[bottom], 1, 1)
    IN  [graph EXCEPT !.parents =
            [m \in DOMAIN graph.steps |->
                IF m = bottom THEN <<>>
                ELSE Dedup(Concat([i \in 1..Len(graph.parents[m]) |->
                                      IF graph.parents[m][i] = top THEN inherited
                                      ELSE <<graph.parents[m][i]>>]))]]

\* disconnect: the run top..bottom is detached, every child of its top stands on all
\* the parents of its bottom instead, in their order
disconnect(graph, top, bottom) ==
    LET inherited == graph.parents[bottom]
    IN  [graph EXCEPT !.parents =
            [m \in DOMAIN graph.steps |->
                IF m = bottom THEN <<>>
                ELSE Dedup(Concat([i \in 1..Len(graph.parents[m]) |->
                                      IF graph.parents[m][i] = top THEN inherited
                                      ELSE <<graph.parents[m][i]>>]))]]

(***************************************************************************)
(* The rebase executor on a step graph (section 4.4) and materialize.      *)
(***************************************************************************)
RebaseTime == 1

PickNodes(graph) == {n \in DOMAIN graph.steps : graph.steps[n].kind = "pick"}

ReferenceNodes(graph) == {n \in DOMAIN graph.steps : graph.steps[n].kind = "reference"}

CommitOf(graph, node) == Unwrap(graph.steps[node].id)

\* an executor that re-creates every pick
keeps_id_never(commit, new_parents) == FALSE

\* a pick without conflict whose parents are the ones it has keeps its commit
keeps_id(commit, new_parents) == new_parents = commit.parents /\ ~is_conflicted(commit)

\* the commit a pick node yields: [ok, commit]; its parents are the commits its
\* nearest picks yield, in order
RECURSIVE RebasePick(_, _)
RebasePick(graph, node) ==
    LET commit == CommitOf(graph, node)
        below == collect_ordered_parents(graph, node)
        done == [i \in 1..Len(below) |-> RebasePick(graph, below[i])]
        new_parents == [i \in 1..Len(below) |-> done[i].commit]
    IN  IF \E i \in 1..Len(below) : ~done[i].ok THEN [ok |-> FALSE, commit |-> commit]
        ELSE IF keeps_id(commit, new_parents) THEN [ok |-> TRUE, commit |-> commit]
        ELSE CherryPick(commit, new_parents, RebaseTime)

\* Editor::rebase: [ok, commits, references]; a reference is put on the commit of its
\* first pick parent
rebase(graph) ==
    LET done == [n \in PickNodes(graph) |-> RebasePick(graph, n)]
    IN  [ok |-> \A n \in PickNodes(graph) : done[n].ok,
         commits |-> [n \in PickNodes(graph) |-> done[n].commit],
         references |->
            [n \in ReferenceNodes(graph) |->
                LET target == find_reference_target(graph, n)
                IN  IF target.ok THEN Some(done[target.node].commit) ELSE None]]

\* materialize: every reference of the graph that has a target is written
materialize(refs, graph, outcome) ==
    [name \in DOMAIN refs |->
        IF \E n \in ReferenceNodes(graph) :
               graph.steps[n].name = name /\ IsSome(outcome.references[n])
        THEN Unwrap(outcome.references[
                 CHOOSE n \in ReferenceNodes(graph) : graph.steps[n].name = name])
        ELSE refs[name]]

(***************************************************************************)
(* The repositories of the tests: a linear history and the two histories   *)
(* with a merge, each with the step graph made of it.                      *)
(***************************************************************************)
ChainLen == 4

ChangeNames == <<"a", "b", "c", "d", "e", "f", "g", "h">>

PathOf(i) == IF i % 2 = 1 THEN "foo" ELSE "bar"

\* commit i of the linear history writes its name to one of the two paths
RECURSIVE LinearCommit(_)
LinearCommit(i) ==
    IF i = 0 THEN Commit("base", <<>>, EmptyTree)
    ELSE LET below == LinearCommit(i - 1)
         IN  Commit(ChangeNames[i], <<below>>,
                    [below.tree EXCEPT ![PathOf(i)] = ChangeNames[i]])

\* node i + 1 picks commit i, the last node is the reference main
FourCommits ==
    [name |-> "four-commits",
     refs |-> [r \in {"main"} |-> LinearCommit(ChainLen)],
     graph |->
        [steps |-> [n \in 1..(ChainLen + 2) |->
                       IF n = ChainLen + 2 THEN Reference("main")
                       ELSE Pick(LinearCommit(n - 1))],
         parents |-> [n \in 1..(ChainLen + 2) |-> IF n = 1 THEN <<>> ELSE <<n - 1>>]]]

Tree(foo, bar) == [p \in Paths |-> IF p = "foo" THEN foo ELSE bar]

\* the commits of the two histories with a merge, by name
Commits ==
    LET base == Commit("base", <<>>, EmptyTree)
        a == Commit("A", <<base>>, Tree("A", Absent))
        c == Commit("C", <<base>>, Tree(Absent, "C"))
        merge == Commit("merge", <<a, c>>, Tree("A", "C"))
        p1 == Commit("P1", <<base>>, Tree("P1", Absent))
        p2 == Commit("P2", <<base>>, Tree(Absent, "P2"))
        m == Commit("M", <<p1, p2>>, Tree("P1", "P2"))
        c1 == Commit("C1", <<m>>, Tree("C1", "P2"))
        c2 == Commit("C2", <<m>>, Tree("P1", "C2"))
    IN  [base |-> base, A |-> a, C |-> c, merge |-> merge,
         top |-> Commit("top", <<merge>>, Tree("A", "top")),
         P1 |-> p1, P2 |-> p2, M |-> m, C1 |-> c1, C2 |-> c2,
         tip |-> Commit("tip", <<c1, c2>>, Tree("C1", "C2"))]

MergeInTheMiddle ==
    [name |-> "merge-in-the-middle",
     refs |-> [r \in {"main", "A", "B", "with-inner-merge"} |->
                  CASE r = "main" -> Commits.base
                    [] r = "A" -> Commits.A
                    [] r = "B" -> Commits.C
                    [] OTHER -> Commits.top],
     graph |->
        [steps |-> <<Pick(Commits.base), Reference("main"), Pick(Commits.A),
                     Reference("A"), Pick(Commits.C), Reference("B"),
                     Pick(Commits.merge), Pick(Commits.top),
                     Reference("with-inner-merge")>>,
         parents |-> <<<<>>, <<1>>, <<2>>, <<3>>, <<2>>, <<5>>, <<4, 6>>, <<7>>, <<8>>>>]]

MergeWithTwoChildren ==
    [name |-> "merge-with-two-children",
     refs |-> [r \in {"main", "P1", "P2", "M", "C1", "C2", "with-two-children"} |->
                  CASE r = "main" -> Commits.base
                    [] r = "P1" -> Commits.P1
                    [] r = "P2" -> Commits.P2
                    [] r = "M" -> Commits.M
                    [] r = "C1" -> Commits.C1
                    [] r = "C2" -> Commits.C2
                    [] OTHER -> Commits.tip],
     graph |->
        [steps |-> <<Pick(Commits.base), Reference("main"), Pick(Commits.P1),
                     Reference("P1"), Pick(Commits.P2), Reference("P2"),
                     Pick(Commits.M), Reference("M"), Pick(Commits.C1), Reference("C1"),
                     Pick(Commits.C2), Reference("C2"), Pick(Commits.tip),
                     Reference("with-two-children")>>,
         parents |-> <<<<>>, <<1>>, <<2>>, <<3>>, <<2>>, <<5>>, <<4, 6>>, <<7>>, <<8>>,
                       <<9>>, <<8>>, <<11>>, <<10, 12>>, <<13>>>>]]

Fixtures == {FourCommits, MergeInTheMiddle, MergeWithTwoChildren}

(***************************************************************************)
(* SpecGraph: an editor is made of one of the repositories, edited with    *)
(* disconnect and replace, rebased and materialized.  `editor` holds the   *)
(* repository's references, the graph as made and as edited, the edits     *)
(* done, and the outcome of the rebase.                                    *)
(***************************************************************************)
MaxEdits == 3

to_editor(fixture) ==
    [fixture |-> fixture.name, refs |-> fixture.refs, made |-> fixture.graph,
     graph |-> fixture.graph, edits |-> <<>>, pc |-> "edit", outcome |-> None]

InitGraph ==
    /\ db = EmptyDb
    /\ file = MissingFile
    /\ last = External
    /\ procs = Unused /\ repo = Unused
    /\ editor \in {to_editor(fixture) : fixture \in Fixtures}

GraphFrame == UNCHANGED <<db, file, last, procs, repo>>

\* top..bottom is a run of picks, each the only parent of the one above and the only
\* thing that stands on the one below
IsRun(graph, top, bottom) ==
    /\ RunOf(graph, top, bottom) \subseteq PickNodes(graph)
    /\ bottom \in RunOf(graph, top, bottom)
    /\ \A n \in RunOf(graph, top, bottom) :
           /\ graph.parents[n] # <<>>
           /\ n # top => \A m \in DOMAIN graph.steps :
                             n \in Range(graph.parents[m]) => m \in RunOf(graph, top, bottom)

\* editor.disconnect(top, bottom)
Disconnect ==
    /\ editor.pc = "edit" /\ Len(editor.edits) < MaxEdits
    /\ \E top, bottom \in PickNodes(editor.graph) :
           /\ IsRun(editor.made, top, bottom) /\ IsRun(editor.graph, top, bottom)
           /\ editor' = [editor EXCEPT
                  !.graph = disconnect(editor.graph, top, bottom),
                  !.edits = Append(@, [op |-> "disconnect", top |-> top,
                                       bottom |-> bottom])]
    /\ GraphFrame

\* editor.replace(node, Step::None)
ReplaceNone ==
    /\ editor.pc = "edit" /\ Len(editor.edits) < MaxEdits
    /\ \E node \in PickNodes(editor.graph) :
           /\ editor.made.parents[node] # <<>>
           /\ editor' = [editor EXCEPT
                  !.graph = replace(editor.graph, node, StepNone),
                  !.edits = Append(@, [op |-> "replace", top |-> node, bottom |-> node])]
    /\ GraphFrame

\* editor.rebase()
RebaseGraph ==
    /\ editor.pc = "edit"
    /\ editor' = [editor EXCEPT !.pc = "rebased", !.outcome = Some(rebase(editor.graph))]
    /\ GraphFrame

\* outcome.materialize()
Materialize ==
    /\ editor.pc = "rebased" /\ Unwrap(editor.outcome).ok
    /\ editor' = [editor EXCEPT
           !.pc = "done",
           !.refs = materialize(editor.refs, editor.graph, Unwrap(editor.outcome))]
    /\ GraphFrame

NextGraph == Disconnect \/ ReplaceNone \/ RebaseGraph \/ Materialize

SpecGraph == InitGraph /\ [][NextGraph]_vars

(***************************************************************************)
(* Vocabulary of the claims about the step graph.                          *)
(***************************************************************************)
\* the commits reachable from a commit, itself included
RECURSIVE Reach(_)
Reach(commit) ==
    {commit} \cup UNION {Reach(commit.parents[i]) : i \in 1..Len(commit.parents)}

\* the commits reachable from the references of the repository
Reachable == UNION {Reach(editor.refs[name]) : name \in DOMAIN editor.refs}

\* the edits were: disconnect(top, bottom), then replace(n, None) for each node n of
\* the run, and nothing else
RemovedRun(top, bottom) ==
    LET run == RunOf(editor.made, top, bottom)
    IN  /\ Len(editor.edits) = 1 + Cardinality(run)
        /\ editor.edits[1] = [op |-> "disconnect", top |-> top, bottom |-> bottom]
        /\ \A k \in 2..Len(editor.edits) : editor.edits[k].op = "replace"
        /\ {editor.edits[k].top : k \in 2..Len(editor.edits)} = run

Emitted(node) == Unwrap(editor.outcome).commits[node]

\* C15: in the repository merge-with-two-children, after disconnect(M, M),
\* replace(M, None), rebase and materialize, the commits of C1 and of C2 each have
\* exactly the parents P1 and P2, the references C1 and C2 are on them, and no
\* commit reachable from a reference has M as a parent.
C15_MergeRemovalRewiresChildren ==
    (editor.pc = "done" /\ editor.fixture = "merge-with-two-children"
        /\ RemovedRun(select_commit(editor.made, Commits.M), select_commit(editor.made, Commits.M)))
    => LET c1 == Emitted(select_commit(editor.made, Commits.C1))
           c2 == Emitted(select_commit(editor.made, Commits.C2))
       IN  /\ Range(c1.parents) = {Commits.P1, Commits.P2}
           /\ Range(c2.parents) = {Commits.P1, Commits.P2}
           /\ editor.refs["C1"] = c1 /\ editor.refs["C2"] = c2
           /\ \A commit \in Reachable : Commits.M \notin Range(commit.parents)

C15_Witness ==
    /\ editor.pc = "done" /\ editor.fixture = "merge-with-two-children"
    /\ RemovedRun(select_commit(editor.made, Commits.M), select_commit(editor.made, Commits.M))
    /\ editor.refs["C1"] # Commits.C1 /\ editor.refs["M"] = Commits.P1

\* the changes of the first-parent history of a commit, oldest first
RECURSIVE History(_)
History(commit) ==
    IF commit.parents = <<>> THEN <<commit.change>>
    ELSE Append(History(commit.parents[1]), commit.change)

\* C16: in the linear repository, after disconnect(top, bottom) of a run, replace(n, None)
\* for every node n of the run, rebase and materialize, the history of main is the
\* original history without the commits of the run, in the original order; the commit
\* emitted for the node above the run has the commit below the run, which is the
\* original one, as its only parent; no commit of the run is reachable from main.
C16_LinearRunRemoved ==
    \A top, bottom \in 2..(ChainLen + 1) :
        (editor.pc = "done" /\ editor.fixture = "four-commits"
            /\ IsRun(editor.made, top, bottom) /\ RemovedRun(top, bottom))
        => LET run == RunOf(editor.made, top, bottom)
               gone == {CommitOf(editor.made, n) : n \in run}
               below == CommitOf(editor.made, bottom - 1)
           IN  /\ History(editor.refs["main"])
                     = SelectSeq(History(LinearCommit(ChainLen)),
                                 LAMBDA change : \A commit \in gone : commit.change # change)
               /\ top <= ChainLen => Emitted(top + 1).parents = <<below>>
               /\ top = ChainLen + 1 => editor.refs["main"] = below
               /\ Reach(editor.refs["main"]) \cap gone = {}

C16_Witness ==
    /\ editor.pc = "done" /\ editor.fixture = "four-commits"
    /\ RemovedRun(3, 2)
    /\ History(editor.refs["main"]) = <<"base">> \o SubSeq(ChangeNames, 3, ChainLen)
    /\ editor.refs["main"] # LinearCommit(ChainLen)

\* the first pick met from a node by stepping to the first parent of every step that
\* is not a pick
RECURSIVE FirstPickBelow(_, _)
FirstPickBelow(graph, node) ==
    LET first == graph.parents[node][1]
    IN  IF graph.steps[first].kind = "pick" THEN first ELSE FirstPickBelow(graph, first)

NewParents(node) ==
    LET below == collect_ordered_parents(editor.graph, node)
    IN  [i \in 1..Len(below) |-> Emitted(below[i])]

RECURSIVE ChangesBelow(_, _)
ChangesBelow(graph, node) ==
    LET below == collect_ordered_parents(graph, node)
    IN  UNION {{CommitOf(graph, below[i]).change} \cup ChangesBelow(graph, below[i]) :
                  i \in 1..Len(below)}

RECURSIVE Log(_, _)
Log(commit, until) ==
    IF commit = until \/ commit.parents = <<>> THEN <<>>
    ELSE <<commit>> \o Log(commit.parents[1], until)

head_oid(heads, merge_base) ==
    IF heads = <<>> THEN merge_base ELSE heads[Len(heads)].head

\* stack.heads_by_commit(commit): the names of the heads on a commit, bottom first
heads_by_commit(heads, commit) ==
    LET on == SelectSeq(heads, LAMBDA h : h.head = commit)
    IN  [i \in 1..Len(on) |-> on[i].name]

\* commits_order: for each head the commits of its series
commits_order(heads, merge_base) ==
    [i \in 1..Len(heads) |->
        [name |-> heads[i].name,
         commit_ids |-> Log(heads[i].head,
                            IF i = 1 THEN merge_base ELSE heads[i - 1].head)]]

IndexOf(q, x) == CHOOSE i \in 1..Len(q) : q[i] = x /\ \A j \in 1..(i - 1) : q[j] # x

Reverse(q) == [i \in 1..Len(q) |-> q[Len(q) + 1 - i]]

\* an order with the sources put beneath the destination
UpdatedOrder_beneath(order, source_ids, destination_id) ==
    [i \in 1..Len(order) |->
        LET kept == SelectSeq(order[i].commit_ids, LAMBDA id : id \notin Range(source_ids))
        IN  [order[i] EXCEPT !.commit_ids =
                IF destination_id \in Range(kept)
                THEN LET pos == IndexOf(kept, destination_id)
                     IN  SubSeq(kept, 1, pos) \o source_ids \o SubSeq(kept, pos + 1, Len(kept))
                ELSE kept]]

\* the order with the sources taken out of every series and put on top of the
\* destination in the series that has it
UpdatedOrder(order, source_ids, destination_id) ==
    [i \in 1..Len(order) |->
        LET kept == SelectSeq(order[i].commit_ids, LAMBDA id : id \notin Range(source_ids))
        IN  [order[i] EXCEPT !.commit_ids =
                IF destination_id \in Range(kept)
                THEN LET pos == IndexOf(kept, destination_id)
                     IN  SubSeq(kept, 1, pos - 1) \o source_ids \o SubSeq(kept, pos, Len(kept))
                ELSE kept]]

\* but_rebase::Rebase on a list of steps, oldest first: every pick is put on the commit
\* before it, every reference on the commit before it
RECURSIVE RebaseSteps(_, _)
RebaseSteps(steps, acc) ==
    IF steps = <<>> THEN acc
    ELSE LET step == Head(steps)
         IN  IF step.kind = "reference"
             THEN RebaseSteps(Tail(steps),
                      [acc EXCEPT !.references =
                          Append(@, [name |-> step.name, head |-> acc.top_commit])])
             ELSE LET commit == Unwrap(step.id)
                      new == IF keeps_id(commit, <<acc.top_commit>>) THEN commit
                             ELSE CherryPick(commit, <<acc.top_commit>>, RebaseTime).commit
                  IN  RebaseSteps(Tail(steps),
                          [acc EXCEPT !.top_commit = new,
                                      !.commit_mapping =
                                          Append(@, [old |-> commit, new |-> new])])

Rebase(merge_base, steps) ==
    RebaseSteps(steps, [top_commit |-> merge_base, references |-> <<>>,
                        commit_mapping |-> <<>>])

\* stack.set_heads_from_rebase_output
set_heads_from_rebase_output(heads, references) ==
    [i \in 1..Len(heads) |->
        IF \E k \in 1..Len(references) : references[k].name = heads[i].name
        THEN [heads[i] EXCEPT !.head =
                 references[CHOOSE k \in 1..Len(references) :
                                references[k].name = heads[i].name].head]
        ELSE heads[i]]

AllIds(order) == Concat([i \in 1..Len(order) |-> order[i].commit_ids])

\* reorder_stack: [ok, heads, commit_mapping]; an order that is not the commits of the
\* stack, each once, is refused
reorder_stack(heads, merge_base, new_order) ==
    LET current == AllIds(commits_order(heads, merge_base))
        steps == Concat([i \in 1..Len(new_order) |->
                            [k \in 1..Len(new_order[i].commit_ids) |->
                                Pick(Reverse(new_order[i].commit_ids)[k])]
                            \o <<Reference(new_order[i].name)>>])
        output == Rebase(merge_base, steps)
    IN  IF Len(AllIds(new_order)) # Len(current) \/ Range(AllIds(new_order)) # Range(current)
        THEN [ok |-> FALSE, heads |-> heads, commit_mapping |-> <<>>]
        ELSE [ok |-> TRUE,
              heads |-> set_heads_from_rebase_output(heads, output.references),
              commit_mapping |-> output.commit_mapping]

\* do_squash_commits, step 1: [ok, heads, source_ids]
SquashReorderStep(heads, merge_base, source_ids, destination_id) ==
    LET order == commits_order(heads, merge_base)
        updated_order == UpdatedOrder(order, source_ids, destination_id)
        reordered == reorder_stack(heads, merge_base, updated_order)
    IN  IF order = updated_order
        THEN [ok |-> TRUE, heads |-> heads, source_ids |-> source_ids]
        ELSE [ok |-> reordered.ok, heads |-> reordered.heads,
              source_ids |->
                 [i \in 1..Len(source_ids) |->
                     IF \E k \in 1..Len(reordered.commit_mapping) :
                            reordered.commit_mapping[k].old = source_ids[i]
                     THEN reordered.commit_mapping[
                              CHOOSE k \in 1..Len(reordered.commit_mapping) :
                                  reordered.commit_mapping[k].old = source_ids[i]].new
                     ELSE source_ids[i]]]

\* the commit of the stack with the change id of `id`: a sequence with it, or empty
FindByChange(branch_commits, id) ==
    SelectSeq(branch_commits, LAMBDA c : c.change = id.change)

\* validate: "ok" or the error
validate(stack, branch_commit_oids, source_commits, destination_commit) ==
    IF \E i \in 1..Len(source_commits) : source_commits[i] = destination_commit
    THEN "cannot squash commit into itself"
    ELSE IF \E i \in 1..Len(source_commits) :
                source_commits[i] \notin Range(branch_commit_oids)
    THEN "commit not in the stack"
    ELSE IF destination_commit \notin Range(branch_commit_oids)
    THEN "commit not in the stack"
    ELSE IF \E i \in 1..Len(source_commits) : is_conflicted(source_commits[i])
    THEN "cannot squash conflicted source commit"
    ELSE IF is_conflicted(destination_commit)
    THEN "cannot squash into conflicted destination commit"
    ELSE IF ~stack.allow_rebasing
            /\ \E i \in 1..Len(source_commits) : source_commits[i] \in stack.remote_commits
    THEN "Force push is now allowed. Source commit has already been pushed"
    ELSE IF ~stack.allow_rebasing /\ destination_commit \in stack.remote_commits
    THEN "Force push is now allowed. Destination commit has already been pushed"
    ELSE "ok"

\* a squash_tree that takes the side of the destination at a conflict and goes on
squash_tree_keeps_going(source_commits, final_tree) ==
    LET merged[i \in 0..Len(source_commits)] ==
            IF i = 0 THEN final_tree
            ELSE Merge3(source_commits[i].parents[1].tree, merged[i - 1],
                        source_commits[i].tree).tree
    IN  [ok |-> TRUE, tree |-> merged[Len(source_commits)]]

\* squash_tree: [ok, tree], the sources merged into the destination's tree in order
RECURSIVE squash_tree(_, _)
squash_tree(source_commits, final_tree) ==
    IF source_commits = <<>> THEN [ok |-> TRUE, tree |-> final_tree]
    ELSE LET source == Head(source_commits)
             merge == Merge3(source.parents[1].tree, final_tree, source.tree)
         IN  IF merge.conflicts # {} THEN [ok |-> FALSE, tree |-> final_tree]
             ELSE squash_tree(Tail(source_commits), merge.tree)

\* a message of nothing but white space
IsBlank(message) == \A i \in 1..Len(message) : message[i] \in {"", " "}

\* a message that takes the sources last given first
new_message_reversed(destination_commit, source_commits) ==
    Concat([i \in 1..(Len(source_commits) + 1) |->
               LET c == (<<destination_commit>> \o Reverse(source_commits))[i]
               IN  IF IsBlank(c.message) THEN <<>> ELSE c.message])

\* the message of the squash commit: the messages of the destination and of the sources
\* in their order, those of nothing but white space left out, joined by newlines
new_message(destination_commit, source_commits) ==
    Concat([i \in 1..(Len(source_commits) + 1) |->
               LET c == (<<destination_commit>> \o source_commits)[i]
               IN  IF IsBlank(c.message) THEN <<>> ELSE c.message])

\* steps that pick the sources as well
SquashSteps_keeps_sources(heads, merge_base, branch_commit_oids, source_ids, destination, new_commit) ==
    LET oldest_first == Reverse(branch_commit_oids)
        refs(commit) == [k \in 1..Len(heads_by_commit(heads, commit)) |->
                            Reference(heads_by_commit(heads, commit)[k])]
    IN  refs(merge_base)
        \o Concat([i \in 1..Len(oldest_first) |->
                      (IF oldest_first[i] = destination THEN <<Pick(new_commit)>>
                       ELSE <<Pick(oldest_first[i])>>)
                      \o refs(oldest_first[i])])

\* the steps of the squash: the references on the merge base, then oldest first every
\* commit of the stack but the sources, the new commit in place of the destination,
\* each followed by the references on it
SquashSteps(heads, merge_base, branch_commit_oids, source_ids, destination, new_commit) ==
    LET oldest_first == Reverse(branch_commit_oids)
        refs(commit) == [k \in 1..Len(heads_by_commit(heads, commit)) |->
                            Reference(heads_by_commit(heads, commit)[k])]
    IN  refs(merge_base)
        \o Concat([i \in 1..Len(oldest_first) |->
                      (IF oldest_first[i] \in Range(source_ids) THEN <<>>
                       ELSE IF oldest_first[i] = destination THEN <<Pick(new_commit)>>
                       ELSE <<Pick(oldest_first[i])>>)
                      \o refs(oldest_first[i])])

\* do_squash_commits, step 2: [result, heads, new_commit]
SquashStep(stack, heads, merge_base, source_ids, destination_id) ==
    LET branch_commit_oids == Log(head_oid(heads, merge_base), merge_base)
        destination == FindByChange(branch_commit_oids, destination_id)
        sources == [i \in 1..Len(source_ids) |->
                       FindByChange(branch_commit_oids, source_ids[i])]
        failed(error) == [result |-> error, heads |-> heads, new_commit |-> None]
    IN  IF destination = <<>> THEN failed("Destination commit not found in the stack")
        ELSE IF \E i \in 1..Len(sources) : sources[i] = <<>>
        THEN failed("Source commit not found in the stack")
        ELSE
        LET destination_commit == destination[1]
            source_commits == [i \in 1..Len(sources) |-> sources[i][1]]
            valid == validate(stack, branch_commit_oids, source_commits, destination_commit)
            final_tree == squash_tree(source_commits, destination_commit.tree)
            new_commit == [change |-> destination_commit.change,
                           parents |-> destination_commit.parents,
                           tree |-> final_tree.tree, conflict |-> None,
                           time |-> RebaseTime,
                           message |-> new_message(destination_commit, source_commits)]
            output == Rebase(merge_base,
                             SquashSteps(heads, merge_base, branch_commit_oids, source_ids,
                                         destination_commit, new_commit))
        IN  IF valid # "ok" THEN failed(valid)
            ELSE IF ~final_tree.ok THEN failed("Merge failed with conflicts")
            ELSE [result |-> "ok",
                  heads |-> set_heads_from_rebase_output(heads, output.references),
                  new_commit |-> Some(new_commit)]

(***************************************************************************)
(* SpecSquash: one call of squash_commits on a stack.  `repo` holds the    *)
(* stack (its heads, whether it may be rebased, the commits already        *)
(* pushed), the merge base, the position of the call, the sources it was   *)
(* given and as renamed by the reorder step, the destination, the snapshot *)
(* taken, and the heads before the call and after the reorder step.        *)
(***************************************************************************)
StackLen == 3

MaxSources == 2

HeadNames == <<"h1", "h2", "h3", "h4", "h5", "h6", "h7", "h8">>

\* commit i of the stack; with `conflicted` the tip is a conflict-carrying commit
StackCommit(i, conflicted) ==
    IF conflicted /\ i = StackLen
    THEN [LinearCommit(i) EXCEPT
             !.conflict = Some([base |-> LinearCommit(i - 1).tree,
                                ours |-> LinearCommit(i - 1).tree,
                                theirs |-> LinearCommit(i).tree])]
    ELSE LinearCommit(i)

\* an earlier version of commit i: the same change on another base
RECURSIVE StaleCommit(_)
StaleCommit(i) ==
    IF i = 0 THEN Commit("old-base", <<>>, EmptyTree)
    ELSE Commit(ChangeNames[i], <<StaleCommit(i - 1)>>, LinearCommit(i).tree)

\* the stacks: heads on some of the commits, one of them on the tip; with `blank` the
\* tip is a commit with an empty message
Stacks ==
    {[stack |-> [allow_rebasing |-> allow, remote_commits |-> pushed],
      heads |-> LET on == [k \in 1..Cardinality(at) |->
                               CHOOSE i \in at : Cardinality({j \in at : j < i}) = k - 1]
                IN  [k \in 1..Len(on) |->
                        [name |-> HeadNames[on[k]],
                         head |-> IF blank /\ on[k] = StackLen
                                  THEN [StackCommit(on[k], conflicted) EXCEPT
                                           !.message = <<"">>]
                                  ELSE StackCommit(on[k], conflicted)]],
      merge_base |-> LinearCommit(0)] :
        allow \in BOOLEAN, conflicted \in BOOLEAN, blank \in BOOLEAN,
        pushed \in {{}, {LinearCommit(1)}, {LinearCommit(i) : i \in 1..StackLen}},
        at \in {a \in SUBSET (1..StackLen) : StackLen \in a}}

\* the commits a caller can name: those of the stack, earlier versions of them, and a
\* commit that has nothing to do with the stack
Candidates(s) ==
    Range(Log(head_oid(s.heads, s.merge_base), s.merge_base))
        \cup {StaleCommit(i) : i \in 1..(StackLen - 1)}
        \cup {Commit("other", <<StaleCommit(0)>>, EmptyTree)}

SourceLists(s) ==
    {q \in UNION {[1..n -> Candidates(s)] : n \in 1..MaxSources} :
        \A i, j \in 1..Len(q) : i # j => q[i] # q[j]}

\* ctx.create_snapshot
create_snapshot(heads) == Some(heads)

\* ctx.restore_snapshot
restore_snapshot(heads, snap) == Unwrap(snap)

InitSquash ==
    /\ db = EmptyDb
    /\ file = MissingFile
    /\ last = External
    /\ procs = Unused /\ editor = Unused
    /\ repo \in {[stack |-> s.stack, heads |-> s.heads, merge_base |-> s.merge_base,
                  pc |-> "idle", given |-> <<>>, source_ids |-> <<>>,
                  destination_id |-> s.merge_base,
                  snap |-> None, before |-> s.heads, reordered |-> s.heads,
                  result |-> "none", new_commit |-> None] : s \in Stacks}

SquashFrame == UNCHANGED <<db, file, last, procs, editor>>

\* squash_commits is called and takes its snapshot
SquashCommits ==
    /\ repo.pc = "idle"
    /\ \E source_ids \in SourceLists(repo), destination_id \in Candidates(repo) :
           repo' = [repo EXCEPT !.pc = "reorder", !.given = source_ids,
                                !.source_ids = source_ids,
                                !.destination_id = destination_id,
                                !.snap = create_snapshot(repo.heads)]
    /\ SquashFrame

\* do_squash_commits, step 1
DoReorder ==
    /\ repo.pc = "reorder"
    /\ LET r == SquashReorderStep(repo.heads, repo.merge_base, repo.source_ids,
                                  repo.destination_id)
       IN  repo' = [repo EXCEPT !.pc = IF r.ok THEN "squash" ELSE "failed",
                                !.heads = r.heads, !.reordered = r.heads,
                                !.source_ids = r.source_ids,
                                !.result = IF r.ok THEN "none" ELSE "reorder failed"]
    /\ SquashFrame

\* do_squash_commits, step 2
DoSquash ==
    /\ repo.pc = "squash"
    /\ LET r == SquashStep(repo.stack, repo.heads, repo.merge_base, repo.source_ids,
                           repo.destination_id)
       IN  repo' = [repo EXCEPT !.pc = IF r.result = "ok" THEN "returned" ELSE "failed",
                                !.heads = r.heads, !.result = r.result,
                                !.new_commit = r.new_commit]
    /\ SquashFrame

\* a squash_commits that returns the error without restoring
RestoreSnapshot_skipped ==
    /\ repo.pc = "failed"
    /\ repo' = [repo EXCEPT !.pc = "returned"]
    /\ SquashFrame

\* squash_commits restores the snapshot and returns the error
RestoreSnapshot ==
    /\ repo.pc = "failed"
    /\ repo' = [repo EXCEPT !.pc = "returned",
                            !.heads = restore_snapshot(repo.heads, repo.snap)]
    /\ SquashFrame

NextSquash == SquashCommits \/ DoReorder \/ DoSquash \/ RestoreSnapshot

SpecSquash == InitSquash /\ [][NextSquash]_vars

CommitsBefore == Log(head_oid(repo.before, repo.merge_base), repo.merge_base)

CommitsAfter == Log(head_oid(repo.heads, repo.merge_base), repo.merge_base)

\* the commits the call was given: its sources and its destination
Given == Range(repo.given) \cup {repo.destination_id}

\* C19: a call of squash_commits returns an error, with the stack as before the call,
\* when a source is the destination, when a source or the destination is not among the
\* commits of the stack, when a source or the destination is conflicted, or when the
\* stack may not be rebased and a source or the destination is among the pushed commits.
C19_InvalidSquashRefused ==
    (/\ repo.pc = "returned"
     /\ \/ repo.destination_id \in Range(repo.given)
        \/ ~(Given \subseteq Range(CommitsBefore))
        \/ \E commit \in Given : is_conflicted(commit)
        \/ ~repo.stack.allow_rebasing /\ Given \cap repo.stack.remote_commits # {})
    => (repo.result # "ok" /\ repo.heads = repo.before)

\* C20: after a call of squash_commits that returns Ok (here: one whose sources and
\* destination are commits of the stack) the stack has as many commits fewer as there
\* were sources, no source is among its commits, and every head that was on a source
\* is on the new commit.
C20_SquashDropsSources ==
    (repo.pc = "returned" /\ repo.result = "ok" /\ Given \subseteq Range(CommitsBefore)) =>
        /\ Len(CommitsAfter) = Len(CommitsBefore) - Len(repo.given)
        /\ Range(CommitsAfter) \cap Range(repo.given) = {}
        /\ \A i \in 1..Len(repo.before) :
               repo.before[i].head \in Range(repo.given)
                   => repo.heads[i].head = Unwrap(repo.new_commit)

\* C20 as amended: after a call of squash_commits that returns Ok and whose sources
\* and destination are commits of the stack, the stack has as many commits fewer as
\* there were sources, the new commit is one of them, no other commit of the stack
\* has the change of a source, and every head that was on the destination, as well
\* as every head that is on a source once the reorder step has put the sources on
\* top of the destination, is on the new commit.
C20_SquashDropsSourcesOfStack ==
    (repo.pc = "returned" /\ repo.result = "ok" /\ Given \subseteq Range(CommitsBefore)) =>
        /\ Len(CommitsAfter) = Len(CommitsBefore) - Len(repo.given)
        /\ Unwrap(repo.new_commit) \in Range(CommitsAfter)
        /\ Range(CommitsAfter) \cap Range(repo.given) = {}
        /\ \A commit \in Range(CommitsAfter) \ {Unwrap(repo.new_commit)} :
               \A source \in Range(repo.given) : commit.change # source.change
        /\ \A i \in 1..Len(repo.before) :
               (\/ repo.before[i].head = repo.destination_id
                \/ repo.reordered[i].head \in Range(repo.source_ids))
               => repo.heads[i].head = Unwrap(repo.new_commit)

C20_Witness ==
    /\ repo.pc = "returned" /\ repo.result = "ok" /\ Given \subseteq Range(CommitsBefore)
    /\ repo.reordered # repo.before
    /\ \E i \in 1..Len(repo.before) :
           repo.before[i].head \in Range(repo.given)
               /\ repo.heads[i].head # Unwrap(repo.new_commit)
    /\ \E j \in 1..Len(repo.before) :
           repo.reordered[j].head \in Range(repo.source_ids)
               /\ repo.heads[j].head = Unwrap(repo.new_commit)

\* the commit of the stack before the call that carries the change of `commit`
Original(commit) == FindByChange(CommitsBefore, commit)[1]

\* C21: the message of the commit made by a call of squash_commits that returns Ok is
\* the message of the destination followed by the message of each source, in the order
\* in which the sources were given, joined by single newlines.
C21_MessageIsJoined ==
    (repo.pc = "returned" /\ repo.result = "ok") =>
        Unwrap(repo.new_commit).message
            = Concat(<<Original(repo.destination_id).message>>
                     \o [i \in 1..Len(repo.given) |-> Original(repo.given[i]).message])

\* C21 as amended: the message of the commit made by a call of squash_commits that
\* returns Ok is made of the message of the destination followed by the message of
\* each source, in the order in which the sources were given, leaving out every
\* message that is empty or white space only, joined by single newlines.
C21_MessageIsJoinedNonBlank ==
    (repo.pc = "returned" /\ repo.result = "ok") =>
        Unwrap(repo.new_commit).message
            = Concat([i \in 1..(Len(repo.given) + 1) |->
                         LET c == Original((<<repo.destination_id>> \o repo.given)[i])
                         IN  IF IsBlank(c.message) THEN <<>> ELSE c.message])

\* two sources, given tip first, are squashed into a third commit
C21_Witness ==
    /\ repo.pc = "returned" /\ repo.result = "ok"
    /\ Given \subseteq Range(CommitsBefore)
    /\ Len(repo.given) = 2
    /\ IndexOf(CommitsBefore, repo.given[1]) < IndexOf(CommitsBefore, repo.given[2])
    /\ Unwrap(repo.new_commit).message
           = <<repo.destination_id.change, repo.given[1].change, repo.given[2].change>>

\* the commits of the stack before the call that lie below the destination and are no
\* sources, nearest first
SurvivorsBelow ==
    LET at == IndexOf(CommitsBefore, Original(repo.destination_id))
    IN  SelectSeq(SubSeq(CommitsBefore, at + 1, Len(CommitsBefore)),
                  LAMBDA c : c \notin Range(repo.given))

\* the sources that lie below the destination in the stack before the call
SourcesBelow ==
    {c \in Range(repo.given) \cap Range(CommitsBefore) :
        IndexOf(CommitsBefore, c) > IndexOf(CommitsBefore, Original(repo.destination_id))}

\* C22: after a call of squash_commits that returns Ok (here: one whose sources and
\* destination are commits of the stack) the new commit is the one commit of the stack
\* with the change of the destination, and its parent is the parent the destination
\* had when the call was made.
C22_ParentIsOriginalParent ==
    (repo.pc = "returned" /\ repo.result = "ok" /\ Given \subseteq Range(CommitsBefore)) =>
        /\ SelectSeq(CommitsAfter, LAMBDA c : c.change = repo.destination_id.change)
               = <<Unwrap(repo.new_commit)>>
        /\ Unwrap(repo.new_commit).parents = Original(repo.destination_id).parents

\* C22 as amended: after a call of squash_commits that returns Ok the new commit is
\* the one commit of the stack with the change of the destination; it has one parent,
\* the commit below it in the stack or the merge base, and that parent carries the
\* change of the nearest commit below the destination that is no source, or is the
\* merge base when there is none; when no source lies below the destination it is the
\* parent the destination had when the call was made.
C22_ParentIsNearestSurvivor ==
    (repo.pc = "returned" /\ repo.result = "ok") =>
        LET new == Unwrap(repo.new_commit)
            at == IndexOf(CommitsAfter, new)
        IN  /\ SelectSeq(CommitsAfter, LAMBDA c : c.change = repo.destination_id.change)
                   = <<new>>
            /\ Len(new.parents) = 1
            /\ new.parents[1] = IF at = Len(CommitsAfter) THEN repo.merge_base
                                ELSE CommitsAfter[at + 1]
            /\ IF SurvivorsBelow = <<>> THEN new.parents[1] = repo.merge_base
               ELSE new.parents[1].change = SurvivorsBelow[1].change
            /\ SourcesBelow = {} => new.parents = Original(repo.destination_id).parents

\* the commit below the destination is squashed into it: the new commit is on the
\* merge base, where the source was, and no longer on the destination's parent
C22_Witness ==
    /\ repo.pc = "returned" /\ repo.result = "ok" /\ Given \subseteq Range(CommitsBefore)
    /\ SourcesBelow = Range(repo.given)
    /\ Len(CommitsAfter) = Len(CommitsBefore) - 1
    /\ Unwrap(repo.new_commit) \in Range(CommitsAfter)
    /\ Unwrap(repo.new_commit).parents = <<repo.merge_base>>
    /\ Original(repo.destination_id).parents = <<repo.given[1]>>

(***************************************************************************)
(* commit_amend and commit_create (section 4.5) on an editor.              *)
(* commit_engine::create_commit builds a tree from the changes: a change   *)
(* [path, previous, content] applies when the path holds `previous` in the *)
(* tree it is applied to and is rejected otherwise; when every change is   *)
(* rejected no commit is made.                                             *)
(***************************************************************************)
MaxChanges == 2

\* the history left by removing the first commit of the linear history: its graph
\* still has the emptied step, and the third commit has become conflicted
ConflictedHistory ==
    LET graph == replace(disconnect(FourCommits.graph, 2, 2), 2, StepNone)
        outcome == rebase(graph)
    IN  [name |-> "conflicted-history",
         refs |-> materialize(FourCommits.refs, graph, outcome),
         graph |-> [graph EXCEPT !.steps =
                       [n \in DOMAIN graph.steps |->
                           IF n \in PickNodes(graph) THEN Pick(outcome.commits[n])
                           ELSE graph.steps[n]]]]

Accepted(tree, change) == tree[change.path] = change.previous

\* create_commit: [new_commit, rejected_specs]; destination is
\* [amend, commit] or [amend, parent, message]
create_commit(destination, changes) ==
    LET tree == IF destination.amend THEN Unwrap(destination.commit).tree
                ELSE IF IsSome(destination.commit) THEN Unwrap(destination.commit).tree
                ELSE EmptyTree
        accepted == SelectSeq(changes, LAMBDA c : Accepted(tree, c))
        new_tree == [p \in Paths |->
                        IF \E i \in 1..Len(accepted) : accepted[i].path = p
                        THEN accepted[CHOOSE i \in 1..Len(accepted) :
                                          accepted[i].path = p].content
                        ELSE tree[p]]
    IN  [new_commit |->
            IF accepted = <<>> THEN None
            ELSE IF destination.amend
            THEN Some([Unwrap(destination.commit) EXCEPT !.tree = new_tree,
                                                         !.time = RebaseTime])
            ELSE Some([change |-> "new", parents |-> destination.commit,
                       tree |-> new_tree, conflict |-> None, time |-> RebaseTime,
                       message |-> destination.message]),
         rejected_specs |-> SelectSeq(changes, LAMBDA c : ~Accepted(tree, c))]

\* insert(selector, step, side): the new node; above, it stands on the node and the
\* node's children stand on it; below, it takes the node's parents and the node
\* stands on it
insert(graph, node, step, side) ==
    LET new == Len(graph.steps) + 1
    IN  [steps |-> Append(graph.steps, step),
         parents |->
            [m \in 1..new |->
                IF side = "above"
                THEN IF m = new THEN <<node>>
                     ELSE [i \in 1..Len(graph.parents[m]) |->
                              IF graph.parents[m][i] = node THEN new
                              ELSE graph.parents[m][i]]
                ELSE IF m = new THEN graph.parents[node]
                     ELSE IF m = node THEN <<new>>
                     ELSE graph.parents[m]]]

\* a lookup that takes the commit of a pick as the parent on either side
parent_commit_id_ignores_side(graph, node, side) ==
    LET step == graph.steps[node]
        target == find_reference_target(graph, node)
    IN  IF step.kind = "pick" THEN [ok |-> TRUE, id |-> step.id]
        ELSE IF step.kind = "reference"
        THEN [ok |-> target.ok,
              id |-> IF target.ok THEN graph.steps[target.node].id ELSE None]
        ELSE [ok |-> TRUE, id |-> None]

\* parent_commit_id_for_new_commit: [ok, id]
parent_commit_id_for_new_commit(graph, node, side) ==
    LET step == graph.steps[node]
        target == find_reference_target(graph, node)
    IN  IF step.kind = "pick" /\ side = "above" THEN [ok |-> TRUE, id |-> step.id]
        ELSE IF step.kind = "pick"
        THEN [ok |-> TRUE,
              id |-> IF Unwrap(step.id).parents = <<>> THEN None
                     ELSE Some(Unwrap(step.id).parents[1])]
        ELSE IF step.kind = "reference"
        THEN [ok |-> target.ok,
              id |-> IF target.ok THEN graph.steps[target.node].id ELSE None]
        ELSE [ok |-> TRUE, id |-> None]

\* a commit_amend that amends conflicted commits as well
amend_refused_never(target) == FALSE

\* if target.is_conflicted() { bail!(..) }
amend_refused(target) == is_conflicted(target)

\* what commit_create returns, but for the rejected specs, when no commit was made
create_without_commit(graph) == [result |-> "ok", rebase |-> None, commit_selector |-> None]

(***************************************************************************)
(* SpecCommit: one call of commit_amend or commit_create on an editor made *)
(* of one of the repositories.  `editor` holds the graph as made and as    *)
(* edited, the call and its position, the commits written to the object    *)
(* database by the call, and what the call returned.                       *)
(***************************************************************************)
CommitFixtures == {FourCommits, MergeInTheMiddle, ConflictedHistory}

\* the changes a caller can pass against a tree: for every path one that applies and
\* one that does not, no two for the same path
ChangeLists(tree) ==
    LET specs == UNION {{[path |-> p, previous |-> v, content |-> "new"] :
                            v \in {tree[p], "stale"}} : p \in Paths}
    IN  {q \in SeqsUpTo(specs, MaxChanges) :
            /\ q # <<>>
            /\ \A i, j \in 1..Len(q) : i # j => q[i].path # q[j].path}

NoCall == [op |-> "none", node |-> 0, side |-> "", changes |-> <<>>, parent |-> None]

InitCommit ==
    /\ db = EmptyDb
    /\ file = MissingFile
    /\ last = External
    /\ procs = Unused /\ repo = Unused
    /\ editor \in {[fixture |-> fixture.name, made |-> fixture.graph,
                    graph |-> fixture.graph, pc |-> "idle", call |-> NoCall,
                    created |-> {}, rejected_specs |-> <<>>,
                    out |-> [result |-> "none", rebase |-> None,
                             commit_selector |-> None]] : fixture \in CommitFixtures}

\* commit_amend is called: the target is looked up and a conflicted one refused
CommitAmend ==
    /\ editor.pc = "idle"
    /\ \E node \in PickNodes(editor.graph) :
         \E changes \in ChangeLists(CommitOf(editor.graph, node).tree) :
           LET target == CommitOf(editor.graph, node)
               call == [op |-> "amend", node |-> node, side |-> "", changes |-> changes,
                        parent |-> None]
           IN  editor' =
                  IF amend_refused(target)
                  THEN [editor EXCEPT !.pc = "returned", !.call = call,
                                      !.out.result = "Cannot amend a conflicted commit"]
                  ELSE [editor EXCEPT !.pc = "create_commit", !.call = call]
    /\ GraphFrame

\* commit_create is called: the parent of the new commit is looked up
CommitCreate ==
    /\ editor.pc = "idle"
    /\ \E node \in DOMAIN editor.graph.steps, side \in {"above", "below"} :
           LET parent == parent_commit_id_for_new_commit(editor.graph, node, side)
           IN  \E changes \in ChangeLists(IF IsSome(parent.id) THEN Unwrap(parent.id).tree
                                          ELSE EmptyTree) :
                 LET call == [op |-> "create", node |-> node, side |-> side,
                              changes |-> changes, parent |-> parent.id]
                 IN  editor' =
                        IF ~parent.ok
                        THEN [editor EXCEPT !.pc = "returned", !.call = call,
                                 !.out.result = "Failed to find a parent for selected reference"]
                        ELSE [editor EXCEPT !.pc = "create_commit", !.call = call]
    /\ GraphFrame

\* create_commit writes the new commit, if any change applies
CreateCommit ==
    /\ editor.pc = "create_commit"
    /\ LET destination ==
               IF editor.call.op = "amend"
               THEN [amend |-> TRUE, message |-> <<>>,
                     commit |-> editor.graph.steps[editor.call.node].id]
               ELSE [amend |-> FALSE, message |-> <<"new">>, commit |-> editor.call.parent]
           create_out == create_commit(destination, editor.call.changes)
       IN  editor' = [editor EXCEPT !.pc = "edit",
                                    !.created = Range(create_out.new_commit),
                                    !.rejected_specs = create_out.rejected_specs]
    /\ GraphFrame

\* a commit_amend that rebases and returns without replacing the target
AmendReturn_without_replace ==
    /\ editor.pc = "edit" /\ editor.call.op = "amend"
    /\ editor' = [editor EXCEPT
           !.pc = "returned",
           !.out = [result |-> "ok", rebase |-> Some(rebase(editor.graph)),
                    commit_selector |-> IF editor.created = {} THEN None
                                        ELSE Some(editor.call.node)]]
    /\ GraphFrame

\* commit_amend replaces the target by the new commit, rebases and returns
AmendReturn ==
    /\ editor.pc = "edit" /\ editor.call.op = "amend"
    /\ LET node == editor.call.node
           graph == IF editor.created = {} THEN editor.graph
                    ELSE replace(editor.graph, node,
                                 Pick(CHOOSE commit \in editor.created : TRUE))
       IN  editor' = [editor EXCEPT
               !.pc = "returned", !.graph = graph,
               !.out = [result |-> "ok", rebase |-> Some(rebase(graph)),
                        commit_selector |-> IF editor.created = {} THEN None
                                            ELSE Some(node)]]
    /\ GraphFrame

\* commit_create inserts the new commit, rebases and returns
CreateReturn ==
    /\ editor.pc = "edit" /\ editor.call.op = "create"
    /\ LET graph == insert(editor.graph, editor.call.node,
                           Pick(CHOOSE commit \in editor.created : TRUE),
                           editor.call.side)
       IN  editor' =
              IF editor.created = {}
              THEN [editor EXCEPT !.pc = "returned",
                                  !.out = create_without_commit(editor.graph)]
              ELSE [editor EXCEPT
                       !.pc = "returned", !.graph = graph,
                       !.out = [result |-> "ok", rebase |-> Some(rebase(graph)),
                                commit_selector |-> Some(Len(graph.steps))]]
    /\ GraphFrame

NextCommit == CommitAmend \/ CommitCreate \/ CreateCommit \/ AmendReturn \/ CreateReturn

SpecCommit == InitCommit /\ [][NextCommit]_vars

\* the commit the call is about: the target of an amend
AmendTarget == CommitOf(editor.made, editor.call.node)

\* C23: a call of commit_amend on a conflicted commit returns an error, and it does so
\* without having written a commit and without having changed the graph of the editor.
C23_ConflictedAmendRefused ==
    (editor.call.op = "amend" /\ is_conflicted(AmendTarget)) =>
        /\ editor.pc = "returned"
        /\ editor.out.result = "Cannot amend a conflicted commit"
        /\ editor.out.rebase = None /\ editor.out.commit_selector = None
        /\ editor.created = {}
        /\ editor.graph = editor.made

\* the conflicted commit is amended with a change that applies to its tree
C23_Witness ==
    /\ editor.call.op = "amend" /\ is_conflicted(AmendTarget)
    /\ editor.pc = "returned"
    /\ \E i \in 1..Len(editor.call.changes) : Accepted(AmendTarget.tree, editor.call.changes[i])
    /\ editor.out.result = "Cannot amend a conflicted commit"

\* C24: a call of commit_create of which every change is rejected writes no commit,
\* leaves the graph as it was, is no error, reports the rejected specs, and returns
\* the rebase to continue from.
C24_AllRejectedCreateContinues ==
    (/\ editor.call.op = "create" /\ editor.pc = "returned"
     /\ editor.out.result = "ok"
     /\ editor.rejected_specs = editor.call.changes) =>
        /\ editor.created = {}
        /\ editor.graph = editor.made
        /\ editor.out.commit_selector = None
        /\ IsSome(editor.out.rebase)

\* the changes of the call that do not apply to the tree of the target
RejectedOfAmend ==
    SelectSeq(editor.call.changes, LAMBDA c : AmendTarget.tree[c.path] # c.previous)

\* C25: a call of commit_amend of which some changes, not all, are rejected returns
\* Ok with the rejected specs; the step of the target, and no other, has become a pick
\* of the new commit; the selector returned is that of the target and the rebase
\* returned has the new commit for it; the new commit has the message, the parents and
\* the change id of the target and the tree of the target with the accepted changes.
\* When all changes are rejected the graph is as it was, no selector is returned, and
\* the rebase is returned all the same.
C25_PartlyRejectedAmend ==
    (editor.call.op = "amend" /\ editor.pc = "returned" /\ ~is_conflicted(AmendTarget)) =>
        LET node == editor.call.node
            rejected == RejectedOfAmend
        IN  /\ editor.out.result = "ok"
            /\ editor.rejected_specs = rejected
            /\ IsSome(editor.out.rebase)
            /\ rejected # editor.call.changes =>
                  \E new \in editor.created :
                     /\ editor.created = {new}
                     /\ editor.graph = replace(editor.made, node, Pick(new))
                     /\ editor.out.commit_selector = Some(node)
                     /\ Unwrap(editor.out.rebase).commits[node] = new
                     /\ new.message = AmendTarget.message
                     /\ new.parents = AmendTarget.parents
                     /\ new.change = AmendTarget.change
                     /\ \A i \in 1..Len(editor.call.changes) :
                           LET c == editor.call.changes[i]
                           IN  new.tree[c.path] = IF c \in Range(rejected)
                                                  THEN AmendTarget.tree[c.path]
                                                  ELSE c.content
            /\ rejected = editor.call.changes =>
                  /\ editor.created = {}
                  /\ editor.graph = editor.made
                  /\ editor.out.commit_selector = None

\* two changes, one of them rejected, amend a commit that has a commit on top
C25_Witness ==
    /\ editor.call.op = "amend" /\ editor.pc = "returned"
    /\ Len(editor.call.changes) = 2 /\ Len(editor.rejected_specs) = 1
    /\ editor.out.commit_selector = Some(editor.call.node)
    /\ \E m \in DOMAIN editor.graph.steps : editor.call.node \in Range(editor.graph.parents[m])
    /\ CommitOf(editor.graph, editor.call.node) # AmendTarget
    /\ Unwrap(editor.out.rebase).commits[editor.call.node]
           = CommitOf(editor.graph, editor.call.node)

Storable(f) ==
    /\ Parseable(f)
    /\ DOMAIN Unwrap(from_str(f.bytes)).branch_targets
           \subseteq DOMAIN Unwrap(from_str(f.bytes)).branches

C27_RestoreIdempotent ==
    LET first == import_toml_into_db(db, file, "none")
        second == import_toml_into_db(first.db, first.file, "none")
    IN  /\ second.result = first.result
        /\ second.db = first.db
        /\ second.file = file
        /\ first.result = "ok" =>
               \A w \in Times :
                   LET read == read_synced_virtual_branches(second.db, second.file, w, "none")
                   IN  /\ read.result = "ok"
                       /\ read.branch = "equal"
                       /\ read.vb = Unwrap(from_str(file.bytes))
                       /\ read.db = second.db
                       /\ read.file = file

\* the import changes the store, which had last seen another file and held another
\* state, and the second import and the read change nothing more
C27_Witness ==
    /\ Initialized(db) /\ Storable(file) /\ ~LastSeenMatches(db, file)
    /\ Content(db) = VbOne
    /\ Unwrap(from_str(file.bytes)) = VbMany
    /\ Content(import_toml_into_db(db, file, "none").db) = VbMany
    /\ import_toml_into_db(import_toml_into_db(db, file, "none").db, file, "none").db
           = import_toml_into_db(db, file, "none").db

(***************************************************************************)
(* The hook boundary (section 4.7): commit_msg, pre_commit_with_tree and   *)
(* post_commit.  A text is the list of its pieces; a hook script is what   *)
(* it does when run: what it prints to stdout and stderr, the code it      *)
(* exits with (none when killed by a signal), what it writes to the        *)
(* message file it is given, and whether it stages something.              *)
(***************************************************************************)
NonAscii == {"é"}

is_ascii(text) == \A i \in 1..Len(text) : text[i] \notin NonAscii

\* text.contains(part)
Contains(text, part) ==
    \E i \in 1..(Len(text) + 1) :
        i + Len(part) - 1 <= Len(text) /\ SubSeq(text, i, i + Len(part) - 1) = part

\* if ctx.legacy_project.husky_hooks_enabled { Some(&["../.husky"]) } else { None }
husky_search_paths(ctx) == IF ctx.husky_hooks_enabled THEN {"../.husky"} ELSE {}

\* git2_hooks: the hook of the hooks directory, else the one of a search path
FindHook(ctx, search_paths) ==
    IF IsSome(ctx.git) THEN ctx.git
    ELSE IF "../.husky" \in search_paths THEN ctx.husky
    ELSE None

\* git2_hooks::hooks_*: NoHookFound, Ok, RunNotSuccessful { stdout, stderr, code }, or
\* an error; `message` is the message file after the hook ran
RunHook(ctx, search_paths, message, fault) ==
    LET found == FindHook(ctx, search_paths)
        hook == Unwrap(found)
        none == [kind |-> "NoHookFound", stdout |-> <<>>, stderr |-> <<>>, code |-> None,
                 message |-> message]
    IN  IF fault # "none" THEN [none EXCEPT !.kind = "Err"]
        ELSE IF found = None THEN none
        ELSE [kind |-> IF hook.code = Some(0) THEN "Ok" ELSE "RunNotSuccessful",
              stdout |-> hook.stdout, stderr |-> hook.stderr, code |-> hook.code,
              message |-> IF IsSome(hook.writes) THEN Unwrap(hook.writes) ELSE message]

\* {code} in format!
Display(code) == IF code = 0 THEN "0" ELSE "1"

\* join_output
join_output(stdout, stderr, code) ==
    LET code_text == IF IsSome(code) THEN <<" (Exit Code ", Display(Unwrap(code)), ")">> ELSE <<>>
    IN  IF stdout = <<>> /\ is_ascii(stderr)
        THEN <<"hook produced no output">> \o code_text
        ELSE IF stdout = <<>> THEN stderr
        ELSE IF stderr = <<>> THEN stdout
        ELSE <<"stdout:\n">> \o stdout \o <<"\n\nstderr:\n">> \o stderr \o code_text

HookOutcome(status, text) == [status |-> status, text |-> text]

\* a commit_msg that reports a message whenever the hook succeeded
commit_msg_always_message(ctx, message, fault) ==
    LET original_message == message
        h == RunHook(ctx, husky_search_paths(ctx), message, fault)
    IN  CASE h.kind = "Err" -> HookOutcome("Err", <<>>)
          [] h.kind = "Ok" -> HookOutcome("Message", h.message)
          [] h.kind = "NoHookFound" -> HookOutcome("NotConfigured", <<>>)
          [] OTHER -> HookOutcome("Failure", join_output(h.stdout, h.stderr, h.code))

\* commit_msg
commit_msg(ctx, message, fault) ==
    LET original_message == message
        h == RunHook(ctx, husky_search_paths(ctx), message, fault)
    IN  CASE h.kind = "Err" -> HookOutcome("Err", <<>>)
          [] h.kind = "Ok" ->
                 IF h.message = original_message THEN HookOutcome("Success", <<>>)
                 ELSE HookOutcome("Message", h.message)
          [] h.kind = "NoHookFound" -> HookOutcome("NotConfigured", <<>>)
          [] OTHER -> HookOutcome("Failure", join_output(h.stdout, h.stderr, h.code))

\* post_commit
post_commit(ctx, fault) ==
    LET h == RunHook(ctx, husky_search_paths(ctx), <<>>, fault)
    IN  CASE h.kind = "Err" -> HookOutcome("Err", <<>>)
          [] h.kind = "Ok" -> HookOutcome("Success", <<>>)
          [] h.kind = "NoHookFound" -> HookOutcome("NotConfigured", <<>>)
          [] OTHER -> HookOutcome("Failure", join_output(h.stdout, h.stderr, h.code))

\* the match of pre_commit_with_tree on what hooks_pre_commit returned
pre_commit_result(h) ==
    CASE h.kind = "Err" -> HookOutcome("Err", <<>>)
      [] h.kind = "Ok" -> HookOutcome("Success", <<>>)
      [] h.kind = "NoHookFound" -> HookOutcome("NotConfigured", <<>>)
      [] OTHER ->
             IF Contains(h.stdout, <<"GITBUTLER_ERROR">>)
                    \/ Contains(h.stderr, <<"GITBUTLER_ERROR">>)
             THEN HookOutcome("Success", <<>>)
             ELSE HookOutcome("Failure", join_output(h.stdout, h.stderr, h.code))

\* a guard that is dropped without resetting when the function does not return a value
guard_runs_on_return_only(exit) == exit = "return"

\* scopeguard::guard((), |_| reset_index(repo, original_tree)): runs when the function
\* returns a value, returns an error with `?`, or unwinds from a panic
guard_runs(exit) == exit \in {"return", "error", "panic"}

(***************************************************************************)
(* SpecHooks: one call of a hook function in a repository with some hooks  *)
(* installed.  `repo` holds the hooks, whether husky hooks are enabled,    *)
(* the tree of the index, the call and its position, and what it returned. *)
(***************************************************************************)
Trees == {"t0", "t1", "staged"}

Messages == {<<"commit message">>, <<"commit message", "\n">>}

\* the scripts: silent or printing to either stream, a marker of the managed hook
\* among the outputs, exiting with 0, 1 or killed, leaving the message file alone or
\* writing it, staging or not
Hooks ==
    [stdout : {<<>>, <<"rejected", "\n">>, <<"GITBUTLER_ERROR">>},
     stderr : {<<>>, <<"oops", "\n">>, <<"é">>},
     code : {Some(0), Some(1), None},
     writes : {None, Some(<<"commit message", "\n">>), Some(<<"rewritten message", "\n">>)},
     stages : BOOLEAN]

HuskyHook ==
    [stdout |-> <<"should not run", "\n">>, stderr |-> <<>>, code |-> Some(1),
     writes |-> None, stages |-> FALSE]

NoHookCall == [op |-> "none", message |-> <<>>, tree_id |-> "t0", entry |-> "t0"]

InitHooks ==
    /\ db = EmptyDb
    /\ file = MissingFile
    /\ last = External
    /\ procs = Unused /\ editor = Unused
    /\ repo \in {[ctx |-> [git |-> git, husky |-> husky, husky_hooks_enabled |-> enabled],
                  index |-> index, pc |-> "idle", call |-> NoHookCall,
                  original_tree |-> None, installed |-> FALSE, ran |-> None,
                  reset |-> "none",
                  exit |-> "none", out |-> HookOutcome("none", <<>>)] :
                     git \in {None} \cup {Some(h) : h \in Hooks},
                     husky \in {None, Some(HuskyHook)}, enabled \in BOOLEAN,
                     index \in {"t0", "t1"}}

HookFrame == UNCHANGED <<db, file, last, procs, editor>>

CommitMsg ==
    /\ repo.pc = "idle"
    /\ \E message \in Messages, fault \in {"none", "io"} :
           repo' = [repo EXCEPT !.pc = "returned",
                                !.call = [NoHookCall EXCEPT !.op = "commit_msg",
                                                            !.message = message],
                                !.ran = Some(RunHook(repo.ctx, husky_search_paths(repo.ctx),
                                                     message, fault)),
                                !.out = commit_msg(repo.ctx, message, fault)]
    /\ HookFrame

PostCommit ==
    /\ repo.pc = "idle"
    /\ \E fault \in {"none", "io"} :
           repo' = [repo EXCEPT !.pc = "returned",
                                !.call = [NoHookCall EXCEPT !.op = "post_commit"],
                                !.ran = Some(RunHook(repo.ctx, husky_search_paths(repo.ctx),
                                                     <<>>, fault)),
                                !.out = post_commit(repo.ctx, fault)]
    /\ HookFrame

\* pre_commit_with_tree is called: the tree of the index is written and the guard made
PreCommitEnter ==
    /\ repo.pc = "idle"
    /\ \E tree_id \in Trees \cup {"missing"}, fault \in {"none", "io"} :
           LET call == [NoHookCall EXCEPT !.op = "pre_commit", !.tree_id = tree_id,
                                          !.entry = repo.index]
           IN  repo' = IF fault = "io"
                       THEN [repo EXCEPT !.pc = "returned", !.call = call,
                                         !.out = HookOutcome("Err", <<>>)]
                       ELSE [repo EXCEPT !.pc = "install", !.call = call,
                                         !.original_tree = Some(repo.index)]
    /\ HookFrame

\* the proposed tree is read into the index and the index written
PreCommitInstall ==
    /\ repo.pc = "install"
    /\ \E fault \in {"none", "io"} :
           repo' = IF fault = "io" \/ repo.call.tree_id \notin Trees
                   THEN [repo EXCEPT !.pc = "exit", !.exit = "error",
                                     !.out = HookOutcome("Err", <<>>)]
                   ELSE [repo EXCEPT !.pc = "hook", !.index = repo.call.tree_id,
                                     !.installed = TRUE]
    /\ HookFrame

\* the pre-commit hook runs, and may stage; the function returns a value or an error,
\* or panics
PreCommitHook ==
    /\ repo.pc = "hook"
    /\ \E fault \in {"none", "io", "panic"} :
           LET h == RunHook(repo.ctx, husky_search_paths(repo.ctx), <<>>,
                            IF fault = "panic" THEN "none" ELSE fault)
               found == FindHook(repo.ctx, husky_search_paths(repo.ctx))
           IN  repo' = [repo EXCEPT
                   !.pc = "exit",
                   !.index = IF fault # "io" /\ IsSome(found) /\ Unwrap(found).stages
                             THEN "staged" ELSE @,
                   !.ran = Some(h),
                   !.exit = CASE fault = "panic" -> "panic"
                              [] fault = "io" -> "error"
                              [] OTHER -> "return",
                   !.out = IF fault = "panic" THEN HookOutcome("panic", <<>>)
                           ELSE pre_commit_result(h)]
    /\ HookFrame

\* the guard is dropped: reset_index(repo, original_tree), whose error is only logged
PreCommitExit ==
    /\ repo.pc = "exit"
    /\ \E fault \in {"none", "io"} :
           repo' = IF ~guard_runs(repo.exit) THEN [repo EXCEPT !.pc = "returned"]
                   ELSE IF fault = "io" THEN [repo EXCEPT !.pc = "returned", !.reset = "Err"]
                   ELSE [repo EXCEPT !.pc = "returned", !.reset = "Ok",
                                     !.index = Unwrap(repo.original_tree)]
    /\ HookFrame

NextHooks ==
    CommitMsg \/ PostCommit \/ PreCommitEnter \/ PreCommitInstall \/ PreCommitHook
        \/ PreCommitExit

SpecHooks == InitHooks /\ [][NextHooks]_vars

\* C28 as stated: when pre_commit_with_tree has returned after the proposed tree was
\* installed in the index, by a value, an error or a panic, the index holds the tree it
\* held when the function was called
C28_IndexRestored ==
    (repo.pc = "returned" /\ repo.call.op = "pre_commit" /\ repo.installed)
        => repo.index = repo.call.entry

\* C28: when pre_commit_with_tree has returned after the proposed tree was installed in
\* the index, by a value, an error or a panic, the reset of the index to the tree it
\* held when the function was called has been attempted, and the index holds that tree
\* unless the reset failed; a failed reset leaves the result of the function as it was
C28_IndexRestoredUnlessResetFails ==
    (repo.pc = "returned" /\ repo.call.op = "pre_commit" /\ repo.installed)
        => /\ repo.reset \in {"Ok", "Err"}
           /\ repo.reset = "Ok" => repo.index = repo.call.entry
           /\ repo.exit = "return" => repo.out = pre_commit_result(Unwrap(repo.ran))

\* the function panicked in a hook that staged, with another tree installed
C28_Witness ==
    /\ repo.pc = "returned" /\ repo.call.op = "pre_commit" /\ repo.installed
    /\ repo.exit = "panic"
    /\ repo.call.tree_id # repo.call.entry
    /\ IsSome(repo.ctx.git) /\ Unwrap(repo.ctx.git).stages
    /\ repo.reset = "Ok"
    /\ repo.index = repo.call.entry

\* C29: commit_msg returns NotConfigured exactly when no hook is found, Failure exactly
\* when the hook ran without success, Message with the text of the file exactly when
\* the hook succeeded and left another text than it was given, Success when it
\* succeeded and left the same text, and an error only when running the hook failed
C29_CommitMsgOutcome ==
    (repo.pc = "returned" /\ repo.call.op = "commit_msg")
        => LET h == Unwrap(repo.ran)
               out == repo.out
           IN  /\ out.status \in {"NotConfigured", "Failure", "Message", "Success", "Err"}
               /\ out.status = "Err" <=> h.kind = "Err"
               /\ out.status = "NotConfigured" <=> h.kind = "NoHookFound"
               /\ out.status = "Failure" <=> h.kind = "RunNotSuccessful"
               /\ out.status = "Message"
                      <=> (h.kind = "Ok" /\ h.message # repo.call.message)
               /\ out.status = "Message" => out.text = h.message
               /\ out.status = "Success"
                      <=> (h.kind = "Ok" /\ h.message = repo.call.message)

\* the hook wrote the text it was given back to the file: Success, not Message
C29_Witness ==
    /\ repo.pc = "returned" /\ repo.call.op = "commit_msg"
    /\ IsSome(repo.ctx.git) /\ Unwrap(repo.ctx.git).writes = Some(repo.call.message)
    /\ repo.out.status = "Success"

\* C30: the text of a Failure holds what the hook wrote to stdout and what it wrote to
\* stderr
C30_FailureTextHoldsOutput ==
    (repo.pc = "returned" /\ repo.out.status = "Failure")
        => LET h == Unwrap(repo.ran)
           IN  Contains(repo.out.text, h.stdout) /\ Contains(repo.out.text, h.stderr)

(***************************************************************************)
(* Invariants of the stored rows (data model) and what reading them does.  *)
(***************************************************************************)
\* the positions of the heads of one stack are 0, 1, .., n - 1
PositionsContiguous(d) ==
    \A sid \in {h.stack_id : h \in d.heads} :
        LET mine == {h \in d.heads : h.stack_id = sid}
        IN  {h.position : h \in mine} = 0..(Cardinality(mine) - 1)

\* no two heads of one stack have the same name
HeadNamesUnique(d) ==
    \A g \in d.heads, h \in d.heads : (g.stack_id = h.stack_id /\ g.name = h.name) => g = h

\* get_snapshot followed by snapshot_to_legacy returns an error
ReadFails(d) ==
    LET snap == get_snapshot(d)
    IN  IsSome(snap) /\ ~snapshot_to_legacy(Unwrap(snap)).ok

\* C31 as stated: when the stored head rows of a stack are not numbered 0, 1, .., n - 1,
\* or two heads of one stack have the same name, reading the store returns an error
C31_CorruptRowsRejected ==
    (IsSome(db.state) /\ (~PositionsContiguous(db) \/ ~HeadNamesUnique(db)))
        => ReadFails(db)

\* every head row and every branch-target row names a stack row
NoOrphans(d) ==
    /\ \A h \in d.heads : h.stack_id \in {r.id : r \in d.stacks}
    /\ \A b \in d.targets : b.stack_id \in {r.id : r \in d.stacks}

\* C32: in every store state reached by any sequence of replace_snapshot and set_state
\* calls, succeeding or failing, each head row and each branch-target row names a stack
\* row that exists: no head or target of a removed stack is left
C32_NoOrphanRows == NoOrphans(db)

\* the store holds heads and a target, and a replace_snapshot that succeeds puts other
\* stacks in place of those they belong to
C32_Witness ==
    /\ db.heads # {} /\ db.targets # {}
    /\ \E snapshot \in Snapshots :
           LET r == replace_snapshot(db, snapshot)
           IN  /\ r.ok
               /\ {x.id : x \in r.t.stacks} \cap {h.stack_id : h \in db.heads} = {}
               /\ r.t.stacks # {}
               /\ r.t.heads # {}

(***************************************************************************)
(* SpecHeads: the sync operations, the write called with a workspace state *)
(* in which two heads of one stack have the same name, the read and the    *)
(* import run also on a file edited to hold that state.                    *)
(***************************************************************************)
\* {S1}, whose two heads are both named "a"
VbTwins ==
    VirtualBranches(Some(TargetMain), <<>>,
                    (1 :> [StackOne EXCEPT !.heads = <<HeadA, StackBranch("a", "c2")>>]),
                    None)

WriteTwins ==
    \E w \in Times, fault \in Faults :
        Apply("write", write_virtual_branches_and_sync(db, file, VbTwins, w, fault))

EditTwins ==
    \E t \in Times :
        /\ file' = [exists |-> TRUE, bytes |-> to_string(VbTwins), mtime |-> t]
        /\ db' = db
        /\ last' = External
        /\ Alone

NextHeads ==
    \/ ReadSynced
    \/ ImportToml
    \/ ExternalDelete
    \/ WriteTwins
    \/ EditTwins

SpecHeads == Init /\ [][NextHeads]_vars

\* C33 as stated: in every store state reached through read_synced_virtual_branches,
\* write_virtual_branches_and_sync and import_toml_into_db, no two heads of one stack
\* have the same name
C33_HeadNamesUnique == HeadNamesUnique(db)

\* the four columns of the default target in a state row
DefaultTargetColumns(state) ==
    {state.default_target_remote_name, state.default_target_branch_name,
     state.default_target_remote_url, state.default_target_sha}

\* C34: in every store state reached through the sync operations the remote name,
\* branch name, remote URL and commit id of the default target are all present or all
\* absent; the push remote name is present only with them, and may be absent with them
C34_DefaultTargetAllOrNone ==
    IsSome(db.state) =>
        LET state == Unwrap(db.state)
        IN  /\ \/ None \notin DefaultTargetColumns(state)
               \/ DefaultTargetColumns(state) = {None}
            /\ IsSome(state.default_target_push_remote_name)
                   => None \notin DefaultTargetColumns(state)
            /\ IsSome(Content(db).default_target) <=> IsSome(state.default_target_sha)

\* after a write or an import the store holds a default target without a push remote
C34_Witness ==
    /\ last.op \in {"write", "import"} /\ last.result = "ok"
    /\ IsSome(db.state)
    /\ None \notin DefaultTargetColumns(Unwrap(db.state))
    /\ Unwrap(db.state).default_target_push_remote_name = None

(***************************************************************************)
(* `but branch list`: the applied stacks it lists (list.rs).  A stack is   *)
(* [id, heads], heads[1] the topmost; a head is [name, tip].  The head at  *)
(* position i of any stack is named BranchNames[i].                        *)
(***************************************************************************)
MaxHeads == 2

MaxListed == 2

Tips == {"c0", "c1"}

BranchNames == <<<<"Feat">>, <<"feat", "-", "x">>, <<"fix">>, <<"fix", "-", "y">>>>

\* str::to_lowercase
to_lowercase(text) == [i \in 1..Len(text) |-> IF text[i] = "Feat" THEN "feat" ELSE text[i]]

\* Vec::retain with the flags of `keep`, by position
KeepAt(s, keep) ==
    LET idx == SelectSeq([i \in 1..Len(s) |-> i], LAMBDA i : keep[i])
    IN  [j \in 1..Len(idx) |-> s[idx[j]]]

\* a head is non-empty whatever the target's commit is
non_empty_ignores_target(heads, target_oid) ==
    [i \in 1..Len(heads) |-> i = Len(heads) \/ heads[i].tip # heads[i + 1].tip]

\* non_empty: tip != tips.get(i + 1).copied().unwrap_or(target_oid)
non_empty(heads, target_oid) ==
    [i \in 1..Len(heads) |->
        LET next_tip == IF i + 1 <= Len(heads) THEN heads[i + 1].tip ELSE target_oid
        IN  heads[i].tip # next_tip]

\* the block under `if let Some(target_oid) = target_oid_for_filter`
omit_empty(applied_stacks, target_oid) ==
    LET filtered == [k \in 1..Len(applied_stacks) |->
                        [applied_stacks[k] EXCEPT
                            !.heads = KeepAt(@, non_empty(@, target_oid))]]
    IN  SelectSeq(filtered, LAMBDA stack : stack.heads # <<>>)

\* the block under `if let Some(ref filter_str) = filter`
name_filter(applied_stacks, filter_str) ==
    LET filter_lower == to_lowercase(filter_str)
        matches(head) == Contains(to_lowercase(head.name), filter_lower)
        kept == SelectSeq(applied_stacks,
                          LAMBDA stack : \E i \in 1..Len(stack.heads) : matches(stack.heads[i]))
    IN  [k \in 1..Len(kept) |->
            [kept[k] EXCEPT !.heads = SelectSeq(@, LAMBDA head : matches(head))]]

\* list: the applied stacks left to print; `target` is get_target_oid(ctx).ok()
list(applied_stacks, target, show_empty, filter) ==
    LET target_oid_for_filter == IF ~show_empty THEN target ELSE None
        shown == IF IsSome(target_oid_for_filter)
                 THEN omit_empty(applied_stacks, Unwrap(target_oid_for_filter))
                 ELSE applied_stacks
    IN  IF IsSome(filter) THEN name_filter(shown, Unwrap(filter)) ELSE shown

\* the heads a stack can have, topmost first
HeadLists ==
    UNION {{[i \in 1..n |-> [name |-> BranchNames[i], tip |-> tip[i]]] :
               tip \in [1..n -> Tips]} : n \in 0..MaxHeads}

\* the applied stacks of a workspace: up to MaxListed stacks, the k-th with id k
StackLists ==
    UNION {{[k \in 1..n |-> [id |-> k, heads |-> heads[k]]] :
               heads \in [1..n -> HeadLists]} : n \in 0..MaxListed}

InitList ==
    /\ db = EmptyDb
    /\ file = MissingFile
    /\ last = External
    /\ procs = Unused /\ editor = Unused
    /\ repo \in {[applied_stacks |-> stacks, target |-> target, show_empty |-> show_empty,
                  filter |-> filter, pc |-> "idle", out |-> <<>>] :
                     stacks \in StackLists, target \in {None, Some("c0")},
                     show_empty \in BOOLEAN, filter \in {None, Some(<<"feat">>)}}

List ==
    /\ repo.pc = "idle"
    /\ repo' = [repo EXCEPT !.pc = "listed",
                            !.out = list(repo.applied_stacks, repo.target, repo.show_empty,
                                         repo.filter)]
    /\ HookFrame

SpecList == InitList /\ [][List]_vars

\* head i of the stack is empty: its tip is that of the head right below it or, for
\* the bottommost head, the target's commit
IsEmptyHead(stack, i, target_oid) ==
    IF i < Len(stack.heads) THEN stack.heads[i].tip = stack.heads[i + 1].tip
    ELSE stack.heads[i].tip = target_oid

\* the stack of `listed` with the id of `stack`, if any
Listed(listed, stack) == SelectSeq(listed, LAMBDA s : s.id = stack.id)

\* C35: with no name filter given: when empty heads are to be omitted and the target's
\* commit is known, the listing holds of every applied stack exactly the heads that are
\* not empty, in their order, a stack none of whose heads is left is not listed, and
\* the stacks listed keep their order; when empty heads are to be shown, or the
\* target's commit cannot be determined, the listing is the applied stacks unchanged
C35_OmitEmptyHeads ==
    (repo.pc = "listed" /\ repo.filter = None)
        => LET stacks == repo.applied_stacks
               out == repo.out
           IN  IF repo.show_empty \/ repo.target = None
               THEN out = stacks
               ELSE /\ \A k \in 1..Len(stacks) :
                           LET stack == stacks[k]
                               kept == {i \in 1..Len(stack.heads) :
                                           ~IsEmptyHead(stack, i, Unwrap(repo.target))}
                               found == Listed(out, stack)
                           IN  IF kept = {} THEN found = <<>>
                               ELSE /\ Len(found) = 1
                                    /\ Len(found[1].heads) = Cardinality(kept)
                                    /\ Range(found[1].heads) = {stack.heads[i] : i \in kept}
                                    /\ \A a, b \in 1..Len(found[1].heads) :
                                           a < b =>
                                               \E i, j \in kept :
                                                   /\ i < j
                                                   /\ found[1].heads[a] = stack.heads[i]
                                                   /\ found[1].heads[b] = stack.heads[j]
                    /\ \A a, b \in 1..Len(out) : a < b => out[a].id < out[b].id
                    /\ \A a \in 1..Len(out) : \E k \in 1..Len(stacks) : stacks[k].id = out[a].id

\* two stacks: every head of the first is empty, the topmost of the second has the
\* tip of the one below it, which is not the target's; one stack with one head is listed
C35_Witness ==
    /\ repo.pc = "listed" /\ repo.filter = None /\ ~repo.show_empty
    /\ repo.target = Some("c0")
    /\ Len(repo.applied_stacks) = 2
    /\ Len(repo.applied_stacks[1].heads) = 2 /\ Len(repo.applied_stacks[2].heads) = 2
    /\ [i \in 1..2 |-> repo.applied_stacks[1].heads[i].tip] = <<"c0", "c0">>
    /\ [i \in 1..2 |-> repo.applied_stacks[2].heads[i].tip] = <<"c1", "c1">>
    /\ Len(repo.out) = 1
    /\ repo.out[1].id = 2
    /\ repo.out[1].heads = <<repo.applied_stacks[2].heads[2]>>

Written(d, vb) ==
    legacy_to_snapshot(vb, into_db_toml_file_info(snapshot_state_or_default(d).state))

ReadBack(d, vb) == get_snapshot(persist_snapshot(d, Written(d, vb).snap, FALSE).t)

Persisted(d, vb) == Written(d, vb).ok /\ persist_snapshot(d, Written(d, vb).snap, FALSE).ok

\* the heads of the snapshot are listed by ascending stack id
HeadsByStackId(snap) ==
    \A i, j \in DOMAIN snap.heads : i < j => snap.heads[i].stack_id <= snap.heads[j].stack_id

\* C37 as stated: the snapshot read back right after persisting the snapshot built
\* from a workspace state is equal to the one written, lists included
C37_ReadBackEqualsWritten ==
    \A vb \in CallerStates :
        Persisted(db, vb) => ReadBack(db, vb) = Some(Written(db, vb).snap)

\* C37: the snapshot read back right after persisting the snapshot built from a
\* workspace state has the state row, the list of stacks (by (sort_order, id)) and the
\* list of branch targets (by stack id) of the one written, and the same heads; the
\* heads are read back by (stack_id, position) while they were written stack by stack
\* in (sort_order, id) order of the stacks, so the two snapshots are equal exactly when
\* that order lists the stacks which have heads by ascending id
C37_ReadBackEqualsWrittenUpToHeadOrder ==
    \A vb \in CallerStates :
        Persisted(db, vb) =>
            LET written == Written(db, vb).snap
                read == Unwrap(ReadBack(db, vb))
            IN  /\ IsSome(ReadBack(db, vb))
                /\ read.state = written.state
                /\ read.stacks = written.stacks
                /\ StacksOrdered(written)
                /\ read.branch_targets = written.branch_targets
                /\ Len(read.heads) = Len(written.heads)
                /\ Range(read.heads) = Range(written.heads)
                /\ \A i, j \in DOMAIN read.heads :
                       i < j => KeyLess(<<read.heads[i].stack_id, read.heads[i].position>>,
                                        <<read.heads[j].stack_id, read.heads[j].position>>)
                /\ (read = written) <=> HeadsByStackId(written)

\* a write stored three stacks of which the one with the smallest id sorts last: the
\* heads read back are not in the order they were written in
C37_Witness ==
    /\ last.op = "write" /\ last.result = "ok"
    /\ Content(db) = VbMany
    /\ Persisted(db, VbMany)
    /\ Written(db, VbMany).snap.state = Unwrap(db.state)
    /\ get_snapshot(db) = ReadBack(db, VbMany)
    /\ get_snapshot(db) # Some(Written(db, VbMany).snap)

CreateStep == editor.made.steps[editor.call.node]

\* C39: the parent commit_create gives the new commit is, for a pick and side above,
\* the commit of the pick; for a pick and side below, the first parent of that commit,
\* none if it has no parent; for a reference, on either side, the commit of the first
\* pick found below the reference; for a none step, on either side, no parent.  When a commit is created it has that parent, the
\* selector returned is that of the step inserted, and that step picks the new commit
C39_ParentOfNewCommit ==
    (editor.call.op = "create") =>
        LET step == CreateStep
            side == editor.call.side
            below == collect_ordered_parents(editor.made, editor.call.node)
        IN  /\ (step.kind = "pick" /\ side = "above") => editor.call.parent = step.id
            /\ (step.kind = "pick" /\ side = "below") =>
                   editor.call.parent = IF Unwrap(step.id).parents = <<>> THEN None
                                        ELSE Some(Unwrap(step.id).parents[1])
            /\ step.kind = "reference" =>
                   /\ below # <<>>
                   /\ editor.call.parent = editor.made.steps[below[1]].id
            /\ step.kind \notin {"pick", "reference"} => editor.call.parent = None
            /\ (editor.pc = "returned" /\ editor.created # {}) =>
                   \E commit \in editor.created :
                       LET selector == Unwrap(editor.out.commit_selector)
                       IN  /\ editor.created = {commit}
                           /\ commit.parents = editor.call.parent
                           /\ IsSome(editor.out.commit_selector)
                           /\ selector \notin DOMAIN editor.made.steps
                           /\ editor.graph.steps[selector] = Pick(commit)

\* a commit was created below a reference: its parent is the commit the reference
\* points to, not the parent of that commit
C39_Witness ==
    /\ editor.call.op = "create" /\ editor.pc = "returned"
    /\ CreateStep.kind = "reference" /\ editor.call.side = "below"
    /\ editor.created # {}
    /\ IsSome(editor.call.parent)
    /\ Unwrap(editor.call.parent).parents # <<>>
    /\ \A commit \in editor.created : commit.parents = editor.call.parent

(***************************************************************************)
(* SpecSquashLong: one call of squash_commits on a stack of one commit     *)
(* more than those of SpecSquash, so that a commit that is neither a       *)
(* source nor the destination can sit between two commits that write the   *)
(* same path.                                                              *)
(***************************************************************************)
LongLen == StackLen + 1

LongStacks ==
    {[stack |-> [allow_rebasing |-> allow, remote_commits |-> pushed],
      heads |-> <<[name |-> HeadNames[LongLen], head |-> LinearCommit(LongLen)]>>,
      merge_base |-> LinearCommit(0)] :
        allow \in BOOLEAN, pushed \in {{}, {LinearCommit(1)}}}

InitSquashLong ==
    /\ db = EmptyDb
    /\ file = MissingFile
    /\ last = External
    /\ procs = Unused /\ editor = Unused
    /\ repo \in {[stack |-> s.stack, heads |-> s.heads, merge_base |-> s.merge_base,
                  pc |-> "idle", given |-> <<>>, source_ids |-> <<>>,
                  destination_id |-> s.merge_base,
                  snap |-> None, before |-> s.heads, reordered |-> s.heads,
                  result |-> "none", new_commit |-> None] : s \in LongStacks}

SpecSquashLong == InitSquashLong /\ [][NextSquash]_vars

\* the commits of the stack as the reorder step left it, tip first
CommitsReordered == Log(head_oid(repo.reordered, repo.merge_base), repo.merge_base)

\* the sources and the destination as the squash step looks them up
SquashSources ==
    [i \in 1..Len(repo.source_ids) |->
        FindByChange(CommitsReordered, repo.source_ids[i])[1]]

SquashDestination == FindByChange(CommitsReordered, repo.destination_id)[1]

\* merging the changes of the sources into the tree, one after the other, leaves a
\* conflict at some source
RECURSIVE SomeSourceConflicts(_, _)
SomeSourceConflicts(sources, tree) ==
    /\ sources # <<>>
    /\ LET merge == Merge3(Head(sources).parents[1].tree, tree, Head(sources).tree)
       IN  \/ merge.conflicts # {}
           \/ SomeSourceConflicts(Tail(sources), merge.tree)

\* a call that ends on a conflict of the merge returns the error, makes no squash
\* commit and leaves the stack as it was at the call
MergeConflictFails ==
    /\ repo.result = "Merge failed with conflicts" =>
           /\ SomeSourceConflicts(SquashSources, SquashDestination.tree)
           /\ repo.new_commit = None
           /\ repo.pc = "returned" =>
                  /\ repo.snap = Some(repo.before)
                  /\ repo.heads = repo.before
                  /\ CommitsAfter = CommitsBefore
    /\ (repo.pc = "returned" /\ repo.result = "ok") =>
           ~SomeSourceConflicts(SquashSources, SquashDestination.tree)

====
